---- MODULE Spec2Model ----
(***************************************************************************)
(* winusb-installer: the unprivileged Server (session orchestrator) of     *)
(* src/src/lib.rs, run against an arbitrary elevated worker.               *)
(*                                                                         *)
(* Time is counted in milliseconds.  Every duration below is the one the   *)
(* source writes.  The worker is the environment: it may connect, send any *)
(* ClientMsg (or a frame that does not decode) at any moment, stay silent, *)
(* or exit.                                                                *)
(*                                                                         *)
(* The parts of the program that install only calls, or that run in the    *)
(* worker, are modelled beside it, each with its own variables and its own *)
(* specification: client_connect of src/src/ipc.rs (ConnectSpec),          *)
(* runas::Child of src/src/runas.rs (ChildSpec), and the way one argument  *)
(* travels from Command::params to the worker's env::args (QuoteSpec),     *)
(* Server::get_pipe_name (NameSpec), the result of Command::spawn for what *)
(* ShellExecuteExW answers (SpawnSpec), and server_create of               *)
(* src/src/ipc.rs among the pipe instances of its name (PipeSpec).         *)
(* Strings are sequences of one-character strings.                         *)
(*                                                                         *)
(* The worker's side, Client::serve with Client::install and its installer *)
(* thread, is modelled against an arbitrary orchestrator (WorkerSpec).     *)
(* One session of Server::install with the worker it spawns running        *)
(* Client::serve is E2ESpec, and one Server over several install calls is  *)
(* CallsSpec.                                                              *)
(***************************************************************************)
EXTENDS Naturals, Sequences, FiniteSets

VARIABLES
    pc,         \* where Server::install stands
    outcome,    \* what install returned ("none" while it runs)
    endedAt,    \* the value of pc at which install ended
    nDevices,   \* devices.len() of the running call
    child,      \* the worker process: "none" | "running" | "exited" | "killed"
    held,       \* Server.child is Some
    termReq,    \* TerminateProcess calls so far: "none" | "ok" | "failed"
    conn,       \* the pipe: "none" | "listening" | "open" | "closed"
    tStart,     \* ms since timeout(30 s, wait_for_start) was armed
    tInstall,   \* ms since timeout(install_timeout, install) was armed
    sinceHb,    \* last_heatbeat.elapsed()
    shortWaits, \* PollInterval-long waits taken so far (bounded)
    installed,  \* wait_installation's local counter
    received,   \* the DeviceInstall messages received, in receive order
    events,     \* the Progress values handed to on_progress, in order
    exitSends,  \* how many times ServerMsg::Exit was handed to send
    exitFailed, \* the last such send returned Err
    sent,       \* the ServerMsg kinds handed to send in this call, in order
    relay,      \* the log task: "none" | "running" | "cancelled" | "failed"
    logTx,      \* log_end_tx: "none" | "held" | "sent" | "dropped"
    staleRead,  \* the log task read the log after install had ended
    handled,    \* kind of the frame install's latest step took, else "none"
    dropped     \* the Server value was dropped

\* client_connect (src/src/ipc.rs), run by the worker.
VARIABLES
    cPhase,     \* "idle" | "sleeping" | "done"
    cTimeout,   \* the timeout it was called with, ms
    cNow,       \* ms since the call
    cOpens,     \* the client_open attempts so far: [at, result], in order
    cResult     \* it returned: "none" | "Channel" | "OpenError" | "Elapsed"

\* One runas::Child (src/src/runas.rs) and the process behind its handle.
VARIABLES
    hState,     \* the Child value: "none" | "owned" | "dropped"
    hProc,      \* its process: "none" | "running" | "exited" | "killed"
    hCloses,    \* CloseHandle calls made on process_handle
    hStale,     \* a call used process_handle after a CloseHandle
    hOps        \* the calls made on the Child, in order, with their results

\* One argument on its way from runas::Command to the worker's env::args.
VARIABLES
    qStage,     \* "none" | "arg" | "param" | "parsed"
    qArg,       \* the argument given to Command::arg
    qParam,     \* the parameter string Command::params built from it
    qArgs       \* the arguments the worker's env::args yields after the program

\* Server::pipe_id and Server::get_pipe_name (src/src/lib.rs).
VARIABLES
    nStage,     \* "new" | "set" | "named"
    nPipeId,    \* Server.pipe_id: <<>> for None, <<id>> for Some(id)
    nResult,    \* how get_pipe_name ended: "none" | "name" | "panic"
    nName       \* the name it returned, <<>> without one

\* Calls of Command::spawn (src/src/runas.rs).
VARIABLE
    sCalls      \* the calls so far: what the OS answered, what spawn returned

\* The instances of the pipe name install uses, and server_create's calls.
VARIABLES
    pInstances, \* the instances that exist, oldest first: [owner, first]
    pTries      \* server_create's calls: [existing, ok], in order

\* Client::serve (src/src/lib.rs): the worker's loop, the thread its install
\* cycle starts, and the two ends of its pipe.
VARIABLES
    wPc,        \* "off" | "recv" | "beat" | "wait" | "join" | "ended"
    wResult,    \* how serve ended: "none" | "Ok" | "Err" | "Panic" | "Killed"
    wLast,      \* what the latest receive yielded: a ServerMsg kind, "None",
                \* "Error", or "none" before the first
    wInbox,     \* what the orchestrator sent and serve has not read, in order
    wPeer,      \* the orchestrator's end of the pipe: "open" | "closed"
    wOut,       \* what the worker sent and the orchestrator has not taken
    wCycle,     \* what the worker sent for the latest Install, in order
    wWait,      \* ms spent in the current timeout(1000 ms, rx.recv())
    wIdle,      \* how many of the cycle's waits ended by their timeout
    wCmds,      \* messages the orchestrator sent so far
    bState,     \* the installer thread: "none" | "discover" | "installing"
                \* | "finished" | "panicked" | "gone"
    bLeft,      \* candidates it has still to install
    wQueue,     \* the mpsc queue from the thread to the loop
    wProduced   \* what the thread put in the queue for the latest Install

\* The pipe between the worker and the Server, when both run.
VARIABLE
    eAges       \* for each message of wOut, the ms since it was sent

\* One Server over several install calls.
VARIABLES
    calls,      \* install calls that were followed by another one
    orphans     \* workers of earlier calls that run and are not Server.child

serverVars == <<pc, outcome, endedAt, nDevices, child, held, termReq, conn,
                tStart,
          tInstall, sinceHb, shortWaits, installed, received, events,
          exitSends, exitFailed, sent, relay, logTx, staleRead, handled,
          dropped>>

connectVars == <<cPhase, cTimeout, cNow, cOpens, cResult>>

\* What Server::install leaves alone.
childVars == <<hState, hProc, hCloses, hStale, hOps>>

quoteVars == <<qStage, qArg, qParam, qArgs>>

nameVars == <<nStage, nPipeId, nResult, nName>>

spawnVars == <<sCalls>>

pipeVars == <<pInstances, pTries>>

workerVars ==
    <<wPc, wResult, wLast, wInbox, wPeer, wOut, wCycle, wWait, wIdle, wCmds,
      bState, bLeft, wQueue, wProduced>>

linkVars == <<eAges>>

callVars == <<calls, orphans>>

lateVars == <<workerVars, linkVars, callVars>>

restVars ==
    <<connectVars, childVars, quoteVars, nameVars, spawnVars, pipeVars,
      lateVars>>

vars == <<serverVars, restVars>>

(***************************************************************************)
(* Bounds of the model.                                                    *)
(***************************************************************************)
MaxDevices == 1      \* devices in a request, and device ids a worker names
MaxResults == 2      \* DeviceInstall messages received in one session
MaxShortWaits == 1   \* waits of one PollInterval (all others are long)
MaxConnectTimeout == 160   \* largest timeout client_connect is called with, ms
MaxChildOps == 3     \* calls made on one Child, its drop included
MaxArgLen == 3       \* characters of an argument
MaxIdTail == 3       \* characters of a pipe id after its leading part
MaxHInst == 33       \* largest hInstApp value ShellExecuteExW leaves
MaxInstances == 3    \* instances of the pipe name that exist at a time
MaxPipeTries == 2    \* calls of server_create
MaxCommands == 2     \* messages the orchestrator sends to one worker
MaxIdle == 1         \* waits of one install cycle that end by their timeout
MaxInFlight == 2     \* messages the pipe holds before a send has to wait
MaxRepeats == 2      \* install calls on one Server after the first

(***************************************************************************)
(* Durations of the source, in ms.                                         *)
(***************************************************************************)
PollInterval == 100
HeartbeatTimeout == 5000
StartTimeout == 30000
InstallTimeout == 360000
ConnectPollPeriod == 50
HeartbeatPeriod == 1000

(***************************************************************************)
(* The SE_ERR_* codes se_err_string names, and the first hInstApp value    *)
(* that Command::spawn does not take for one.                              *)
(***************************************************************************)
SE_ERR_FNF == 2
SE_ERR_PNF == 3
SE_ERR_ACCESSDENIED == 5
SE_ERR_OOM == 8
SE_ERR_SHARE == 26
SE_ERR_ASSOCINCOMPLETE == 27
SE_ERR_DDETIMEOUT == 28
SE_ERR_DDEFAIL == 29
SE_ERR_DDEBUSY == 30
SE_ERR_NOASSOC == 31
SE_ERR_DLLNOTFOUND == 32
FirstNonError == 32

\* How long the model lets time pass in one step while no message arrives.
TimeSteps == {PollInterval, HeartbeatTimeout}

(***************************************************************************)
(* Messages.                                                               *)
(***************************************************************************)
DeviceIds == 1..MaxDevices

DeviceInstallMsgs == [kind : {"DeviceInstall"}, dev : DeviceIds, ok : BOOLEAN]

ClientMsg ==
    [kind : {"Heatbeat", "Error", "InstallStarted", "InstallDone"}]
        \cup DeviceInstallMsgs

\* What io.next() can yield on an open pipe: a message, or a frame that
\* fails to decode (Some(Err(_)), turned into a return by `transpose()?`).
Frames == ClientMsg \cup {[kind |-> "Malformed"]}

ProgressStarted == [kind |-> "Started"]

ProgressDevice(m) == [kind |-> "Device", dev |-> m.dev, ok |-> m.ok]

(***************************************************************************)
(* Pieces of the code, as operators.                                       *)
(***************************************************************************)

\* Channel::send on the server side of the pipe: it fails once the worker's
\* end is gone.
SendSucceeds(c) == c = "open"

\* Child::try_wait_raw(0) on a process in state c: Ok(Some(())) when it has
\* ended, Ok(None) when it runs, Err(_) when WaitForSingleObject answers
\* anything else (waitOk is FALSE).  A terminated process counts as ended.
WaitRaw(c, waitOk) ==
    IF ~waitOk THEN "err"
    ELSE IF c \in {"exited", "killed"} THEN "some" ELSE "none"

\* Faulty variant: TerminateProcess is called without looking at the wait.
KillSignalsAlways(c, waitOk) == TRUE

\* Child::kill: try_wait_raw(0) first; TerminateProcess unless that returned
\* Ok(Some(())).  osOk is what TerminateProcess returns.
KillSignals(c, waitOk) == WaitRaw(c, waitOk) # "some"

KillReturnsOk(c, waitOk, osOk) == ~KillSignals(c, waitOk) \/ osOk

ChildAfterKill(c, waitOk, osOk) ==
    IF KillSignals(c, waitOk) /\ osOk /\ c = "running" THEN "killed" ELSE c

TermReqAfterKill(t, c, waitOk, osOk) ==
    IF ~KillSignals(c, waitOk) THEN t ELSE IF osOk THEN "ok" ELSE "failed"

\* Faulty variant: a DeviceInstall before InstallStarted is let through.
StartStepLenient(m) ==
    CASE m.kind \in {"Heatbeat", "Error", "DeviceInstall"} -> "continue"
      [] m.kind = "InstallStarted" -> "started"
      [] m.kind = "Malformed" -> "transport"
      [] OTHER -> "unexpected"

\* The match of wait_for_start.
StartStep(m) ==
    CASE m.kind = "Heatbeat" -> "continue"
      [] m.kind = "Error" -> "continue"
      [] m.kind = "InstallStarted" -> "started"
      [] m.kind = "Malformed" -> "transport"
      [] OTHER -> "unexpected"

\* Faulty variant: a failed device result ends the loop with an error.
InstallStepFailFast(m) ==
    CASE m.kind \in {"Heatbeat", "InstallStarted"} -> "beat"
      [] m.kind = "InstallDone" -> "break"
      [] m.kind = "Error" -> "log"
      [] m.kind = "DeviceInstall" /\ m.ok -> "device"
      [] OTHER -> "transport"

\* The match of wait_installation.
InstallStep(m) ==
    CASE m.kind \in {"Heatbeat", "InstallStarted"} -> "beat"
      [] m.kind = "InstallDone" -> "break"
      [] m.kind = "Error" -> "log"
      [] m.kind = "DeviceInstall" -> "device"
      [] OTHER -> "transport"

\* Faulty variant: every result is counted, failed or not.
InstalledAfterCountsAll(n, m) == n + 1

\* if result.is_ok() { installed += 1; }
InstalledAfter(n, m) == IF m.ok THEN n + 1 ELSE n

\* Faulty variant: the elapsed time is compared with install_timeout.
HeartbeatExpiredWrongLimit(e) == e > InstallTimeout

\* last_heatbeat.elapsed() > heartbeat_timeout
HeartbeatExpired(e) == e > HeartbeatTimeout

\* Faulty variant: the handshake is given install_timeout.
StartExpiredWrongLimit(t) == t >= InstallTimeout

\* tokio::time::timeout: the deadline has been reached.
StartExpired(t) == t >= StartTimeout

InstallExpired(t) == t >= InstallTimeout

\* Faulty variant: an empty device list is installed like any other.
NothingToDoNever(n) == FALSE

\* devices.len() == 0
NothingToDo(n) == n = 0

\* The io::Error install returns for each of its timeouts.  The heartbeat
\* check builds io::Error::new(TimedOut, "No heatbeat from client"); both
\* tokio timeouts yield Elapsed, which `?` and e.into() turn into the same
\* io::Error, io::ErrorKind::TimedOut.into().
TimeoutError(cause) == IF cause = "heartbeat" THEN "NoHeartbeat" ELSE "Elapsed"

\* log_end_tx is a local of install: consumed by send(()) on the last line,
\* dropped with the frame on every other way out.
LogTxAtReturn(tx, out) ==
    IF tx = "held" THEN (IF out = "Ok" THEN "sent" ELSE "dropped") ELSE tx

\* Faulty variant: only a received () ends the task, Err(Closed) does not.
RelayEndsOnSignalOnly(tx) == tx = "sent"

\* log_end_rx.try_recv(): Ok(_) and Err(Closed) end the task, Err(Empty)
\* lets it go on.
RelayEnds(tx) == tx \in {"sent", "dropped"}

\* The local `server` channel goes with install's frame.
ConnAtReturn(c) == IF c \in {"listening", "open"} THEN "closed" ELSE c

\* install returns `out` (or, for "Dropped", its future is dropped): its
\* timers and its locals go with the frame.
Return(out) ==
    /\ pc' = "done"
    /\ outcome' = out
    /\ endedAt' = pc
    /\ logTx' = LogTxAtReturn(logTx, out)
    /\ conn' = ConnAtReturn(conn)
    /\ tStart' = 0
    /\ tInstall' = 0
    /\ sinceHb' = 0
    /\ shortWaits' = 0

\* server.send(ServerMsg::Exit).await, whatever comes of it.
SendExit ==
    /\ exitSends' = exitSends + 1
    /\ sent' = Append(sent, "Exit")
    /\ exitFailed' = ~SendSucceeds(conn)

\* Faulty variant: the Exit send is followed by `?`.
TimedOutEscalates ==
    SendExit /\ Return(IF SendSucceeds(conn) THEN "Elapsed" ELSE "SendError")

\* The Err(e) arm of the 6 min timeout: Exit is sent with .ok(), then
\* return Err(e.into()).
TimedOut == SendExit /\ Return(TimeoutError("overall"))

\* Faulty variant: the Exit send is followed by `?`.
CompletedEscalates ==
    SendExit /\ Return(IF SendSucceeds(conn) THEN "Ok" ELSE "SendError")

\* After the loop: Exit is sent, a failure only logged; the tally is logged;
\* log_end_tx.send(()).ok(); Ok(()).
Completed == SendExit /\ Return("Ok")

(***************************************************************************)
(* Initial state: Server::new(), no install running.                       *)
(***************************************************************************)
ServerNew ==
    /\ pc = "idle"
    /\ outcome = "none"
    /\ endedAt = "none"
    /\ nDevices = 0
    /\ child = "none"
    /\ held = FALSE
    /\ termReq = "none"
    /\ conn = "none"
    /\ tStart = 0
    /\ tInstall = 0
    /\ sinceHb = 0
    /\ shortWaits = 0
    /\ installed = 0
    /\ received = <<>>
    /\ events = <<>>
    /\ exitSends = 0
    /\ exitFailed = FALSE
    /\ sent = <<>>
    /\ relay = "none"
    /\ logTx = "none"
    /\ staleRead = FALSE
    /\ handled = "none"
    /\ dropped = FALSE

\* client_connect has not been called.
ConnectIdle ==
    /\ cPhase = "idle"
    /\ cTimeout = 0
    /\ cNow = 0
    /\ cOpens = <<>>
    /\ cResult = "none"

\* No Child has been spawned.
ChildNone ==
    /\ hState = "none"
    /\ hProc = "none"
    /\ hCloses = 0
    /\ hStale = FALSE
    /\ hOps = <<>>

\* No argument has been given.
QuoteNone ==
    /\ qStage = "none"
    /\ qArg = <<>>
    /\ qParam = <<>>
    /\ qArgs = <<>>

\* Server::new(): pipe_id is None.
NameNew ==
    /\ nStage = "new"
    /\ nPipeId = <<>>
    /\ nResult = "none"
    /\ nName = <<>>

\* Command::spawn has not been called.
SpawnNone == sCalls = <<>>

\* Client::serve has not been called.
WorkerOff ==
    /\ wPc = "off"
    /\ wResult = "none"
    /\ wLast = "none"
    /\ wInbox = <<>>
    /\ wPeer = "open"
    /\ wOut = <<>>
    /\ wCycle = <<>>
    /\ wWait = 0
    /\ wIdle = 0
    /\ wCmds = 0
    /\ bState = "none"
    /\ bLeft = 0
    /\ wQueue = <<>>
    /\ wProduced = <<>>

\* Nothing is on its way.
LinkEmpty == eAges = <<>>

\* install has not been called before.
FirstCall ==
    /\ calls = 0
    /\ orphans = 0

\* The pipe name has no instance.
PipeNone ==
    /\ pInstances = <<>>
    /\ pTries = <<>>

Init ==
    /\ ServerNew
    /\ ConnectIdle
    /\ ChildNone
    /\ QuoteNone
    /\ NameNew
    /\ SpawnNone
    /\ PipeNone
    /\ WorkerOff
    /\ LinkEmpty
    /\ FirstCall

(***************************************************************************)
(* The steps of Server::install and of what surrounds it, over the         *)
(* Server's variables alone; each specification adds what its steps leave  *)
(* unchanged.                                                              *)
(*                                                                         *)
(* Server::install, up to the accept.  n is devices.len(); listenerOk,     *)
(* waitOk, osOk and spawnOk are what the pipe creation,                    *)
(* WaitForSingleObject, TerminateProcess and ShellExecuteExW answer.       *)
(***************************************************************************)
Install(n, listenerOk, waitOk, osOk, spawnOk) ==
    /\ pc = "idle"
    /\ ~dropped
    /\ nDevices' = n
    /\ handled' = "none"
    /\ UNCHANGED <<installed, received, events, exitSends, sent, exitFailed,
                   relay,
                   staleRead, dropped>>
    /\ IF NothingToDo(n)
         THEN Return("Ok") /\ UNCHANGED <<child, held, termReq>>
       ELSE IF ~listenerOk
         THEN Return("ListenerError") /\ UNCHANGED <<child, held, termReq>>
       ELSE IF held /\ ~KillReturnsOk(child, waitOk, osOk)
         THEN /\ Return("KillError")
              /\ held' = FALSE
              /\ termReq' = TermReqAfterKill(termReq, child, waitOk, osOk)
              /\ UNCHANGED child
       ELSE IF ~spawnOk
         THEN /\ Return("SpawnError")
              /\ held' = FALSE
              /\ child' = (IF held
                             THEN ChildAfterKill(child, waitOk, osOk)
                             ELSE child)
              /\ termReq' =
                    (IF held
                       THEN TermReqAfterKill(termReq, child, waitOk, osOk)
                       ELSE termReq)
       ELSE /\ pc' = "accept"
            /\ conn' = "listening"
            /\ child' = "running"
            /\ held' = TRUE
            /\ termReq' =
                  (IF held
                     THEN TermReqAfterKill(termReq, child, waitOk, osOk)
                     ELSE termReq)
            /\ UNCHANGED <<outcome, endedAt, logTx, tStart, tInstall, sinceHb,
                           shortWaits>>

\* server.connect().await completes: the worker has opened the pipe.
Accept ==
    /\ pc = "accept"
    /\ child = "running"
    /\ conn = "listening"
    /\ pc' = "logsetup"
    /\ conn' = "open"
    /\ UNCHANGED <<outcome, endedAt, nDevices, child, held, termReq, tStart,
                   tInstall, sinceHb, shortWaits, installed, received, events,
                   exitSends, sent, exitFailed, relay, logTx, staleRead,
                   handled,
                   dropped>>

\* server.connect().await? yields an error.
AcceptFail ==
    /\ pc = "accept"
    /\ Return("AcceptError")
    /\ UNCHANGED <<nDevices, child, held, termReq, installed, received, events,
                   exitSends, sent, exitFailed, relay, staleRead, handled,
                   dropped>>

\* Faulty variant: without a window install gives up.
LogSetupNeedsWindow(window) ==
    /\ pc = "logsetup"
    /\ UNCHANGED <<nDevices, child, held, termReq, installed, received, events,
                   exitSends, exitFailed, staleRead, handled, dropped>>
    /\ sent' = (IF window THEN Append(sent, "Logging") ELSE sent)
    /\ IF ~window \/ ~SendSucceeds(conn)
         THEN Return("SendError") /\ UNCHANGED relay
         ELSE /\ pc' = "request"
              /\ logTx' = "held"
              /\ relay' = (IF window THEN "running" ELSE relay)
              /\ UNCHANGED <<outcome, endedAt, conn, tStart, tInstall, sinceHb,
                             shortWaits>>

\* oneshot::channel(), then LogReceiver::new(): with a window, Logging is
\* sent and the log task spawned; without one, only a warning.
LogSetup(window) ==
    /\ pc = "logsetup"
    /\ UNCHANGED <<nDevices, child, held, termReq, installed, received, events,
                   exitSends, exitFailed, staleRead, handled, dropped>>
    /\ sent' = (IF window THEN Append(sent, "Logging") ELSE sent)
    /\ IF window /\ ~SendSucceeds(conn)
         THEN Return("SendError") /\ UNCHANGED relay
         ELSE /\ pc' = "request"
              /\ logTx' = "held"
              /\ relay' = (IF window THEN "running" ELSE relay)
              /\ UNCHANGED <<outcome, endedAt, conn, tStart, tInstall, sinceHb,
                             shortWaits>>

\* server.send(ServerMsg::Install(..)).await?, then the 30 s timeout is armed.
Request ==
    /\ pc = "request"
    /\ UNCHANGED <<nDevices, child, held, termReq, installed, received, events,
                   exitSends, exitFailed, relay, staleRead, handled, dropped>>
    /\ sent' = Append(sent, "Install")
    /\ IF SendSucceeds(conn)
         THEN /\ pc' = "await_start"
              /\ tStart' = 0
              /\ UNCHANGED <<outcome, endedAt, conn, logTx, tInstall, sinceHb,
                             shortWaits>>
         ELSE Return("SendError")

(***************************************************************************)
(* wait_for_start under timeout(30 s): one frame taken from the pipe.      *)
(***************************************************************************)
RecvStart(m) ==
    /\ pc = "await_start"
    /\ conn = "open"
    /\ handled' = m.kind
    /\ UNCHANGED <<nDevices, child, held, termReq, received, exitSends, sent,
                   exitFailed, relay, staleRead, dropped>>
    /\ CASE StartStep(m) = "continue" ->
              UNCHANGED <<pc, outcome, endedAt, logTx, conn, tStart, tInstall,
                          sinceHb, shortWaits, installed, events>>
         [] StartStep(m) = "started" ->
              \* on_progress(Progress::Started); wait_installation begins
              /\ pc' = "inst_check"
              /\ events' = Append(events, ProgressStarted)
              /\ tStart' = 0
              /\ tInstall' = 0
              /\ sinceHb' = 0
              /\ installed' = 0
              /\ UNCHANGED <<outcome, endedAt, logTx, conn, shortWaits>>
         [] StartStep(m) = "unexpected" ->
              /\ Return("Unexpected")
              /\ UNCHANGED <<installed, events>>
         [] OTHER ->
              /\ Return("Transport")
              /\ UNCHANGED <<installed, events>>

\* The 30 s timeout around wait_for_start fires: `??` returns Elapsed.
StartTimeoutFire ==
    /\ pc = "await_start"
    /\ StartExpired(tStart)
    /\ Return(TimeoutError("start"))
    /\ handled' = "none"
    /\ UNCHANGED <<nDevices, child, held, termReq, installed, received, events,
                   exitSends, sent, exitFailed, relay, staleRead, dropped>>

(***************************************************************************)
(* wait_installation under timeout(6 min).                                 *)
(***************************************************************************)
\* Top of the loop: the heartbeat check, then the 100 ms receive is armed.
InstCheck ==
    /\ pc = "inst_check"
    /\ handled' = "none"
    /\ UNCHANGED <<nDevices, child, held, termReq, installed, received, events,
                   exitSends, sent, exitFailed, relay, staleRead, dropped>>
    /\ IF HeartbeatExpired(sinceHb)
         THEN Return(TimeoutError("heartbeat"))
         ELSE /\ pc' = "inst_recv"
              /\ UNCHANGED <<outcome, endedAt, logTx, conn, tStart, tInstall,
                             sinceHb, shortWaits>>

\* io.next() yields a frame within the 100 ms.
InstRecv(m) ==
    /\ pc = "inst_recv"
    /\ conn = "open"
    /\ InstallStep(m) = "device" => Len(received) < MaxResults
    /\ handled' = m.kind
    /\ UNCHANGED <<nDevices, child, held, termReq, relay, staleRead, dropped>>
    /\ CASE InstallStep(m) = "beat" ->
              /\ sinceHb' = 0
              /\ pc' = "inst_check"
              /\ UNCHANGED <<outcome, endedAt, logTx, conn, tStart, tInstall,
                             shortWaits, installed, received, events,
                             exitSends, sent, exitFailed>>
         [] InstallStep(m) = "log" ->
              /\ pc' = "inst_check"
              /\ UNCHANGED <<outcome, endedAt, logTx, conn, tStart, tInstall,
                             sinceHb, shortWaits, installed, received, events,
                             exitSends, sent, exitFailed>>
         [] InstallStep(m) = "device" ->
              /\ installed' = InstalledAfter(installed, m)
              /\ events' = Append(events, ProgressDevice(m))
              /\ received' = Append(received, m)
              /\ pc' = "inst_check"
              /\ UNCHANGED <<outcome, endedAt, logTx, conn, tStart, tInstall,
                             sinceHb, shortWaits, exitSends, sent, exitFailed>>
         [] InstallStep(m) = "break" ->
              \* Ok(installed): the timeout around the loop is done with
              /\ pc' = "finish"
              /\ tInstall' = 0
              /\ sinceHb' = 0
              /\ UNCHANGED <<outcome, endedAt, logTx, conn, tStart, shortWaits,
                             installed, received, events, exitSends, sent,
                             exitFailed>>
         [] OTHER ->
              /\ Return("Transport")
              /\ UNCHANGED <<installed, received, events, exitSends, sent,
                             exitFailed>>

\* What follows the loop when it ended with InstallDone.
Finish ==
    /\ pc = "finish"
    /\ Completed
    /\ UNCHANGED <<nDevices, child, held, termReq, installed, received, events,
                   relay, staleRead, handled, dropped>>

\* Faulty variant: the end of the stream is taken for InstallDone.
InstRecvNoneCompletes ==
    /\ pc = "inst_recv"
    /\ conn = "closed"
    /\ pc' = "finish"
    /\ handled' = "none"
    /\ UNCHANGED <<outcome, endedAt, nDevices, child, held, termReq, conn,
                   tStart, tInstall, sinceHb, shortWaits, installed, received,
                   events, exitSends, sent, exitFailed, relay, logTx,
                   staleRead, dropped>>

\* io.next() yields None at once: the worker's end of the pipe is closed.
InstRecvNone ==
    /\ pc = "inst_recv"
    /\ conn = "closed"
    /\ pc' = "inst_check"
    /\ handled' = "none"
    /\ UNCHANGED <<outcome, endedAt, nDevices, child, held, termReq, conn,
                   tStart, tInstall, sinceHb, shortWaits, installed, received,
                   events, exitSends, sent, exitFailed, relay, logTx, staleRead,
                   dropped>>

\* The 6 min timeout fires while the loop is suspended in the receive:
\* Exit is sent with .ok(), and Elapsed is returned.
OverallTimeout ==
    /\ pc = "inst_recv"
    /\ InstallExpired(tInstall)
    /\ TimedOut
    /\ handled' = "none"
    /\ UNCHANGED <<nDevices, child, held, termReq, installed, received, events,
                   relay, staleRead, dropped>>

(***************************************************************************)
(* d ms pass and nothing arrives.  In wait_for_start the task sleeps until *)
(* a frame or the 30 s deadline.  In wait_installation d ms are d/100      *)
(* rounds of the loop, each ending in the 100 ms receive timeout and       *)
(* followed by the heartbeat check: all but the last check are taken here  *)
(* (they must let the loop go on), the last one is InstCheck's.  Time does *)
(* not run past a deadline that tokio has armed.                           *)
(***************************************************************************)
Rounds(d) == d \div PollInterval

Tick(d) ==
    /\ d = PollInterval => shortWaits < MaxShortWaits
    /\ shortWaits' = (IF d = PollInterval THEN shortWaits + 1 ELSE shortWaits)
    /\ handled' = "none"
    /\ UNCHANGED <<outcome, endedAt, nDevices, child, held, termReq, conn,
                   installed, received, events, exitSends, sent, exitFailed,
                   relay,
                   logTx, staleRead, dropped>>
    /\ CASE pc = "await_start" ->
              /\ \A k \in 0..(Rounds(d) - 1) :
                    ~StartExpired(tStart + k * PollInterval)
              /\ tStart' = tStart + d
              /\ UNCHANGED <<pc, tInstall, sinceHb>>
         [] pc = "inst_recv" ->
              /\ \A k \in 0..(Rounds(d) - 1) :
                    ~InstallExpired(tInstall + k * PollInterval)
              /\ \A k \in 1..(Rounds(d) - 1) :
                    ~HeartbeatExpired(sinceHb + k * PollInterval)
              /\ tInstall' = tInstall + d
              /\ sinceHb' = sinceHb + d
              /\ pc' = "inst_check"
              /\ UNCHANGED tStart
         [] OTHER -> FALSE

(***************************************************************************)
(* The environment of install.                                             *)
(***************************************************************************)
\* The worker process ends on its own; its end of the pipe closes.
WorkerExit ==
    /\ child = "running"
    /\ child' = "exited"
    /\ conn' = (IF conn = "open" THEN "closed" ELSE conn)
    /\ UNCHANGED <<pc, outcome, endedAt, nDevices, held, termReq, tStart,
                   tInstall, sinceHb, shortWaits, installed, received, events,
                   exitSends, sent, exitFailed, relay, logTx, staleRead,
                   handled,
                   dropped>>

\* The caller drops install's future at one of its suspension points.
Cancel ==
    /\ pc \in {"accept", "await_start", "inst_recv"}
    /\ Return("Dropped")
    /\ handled' = "none"
    /\ UNCHANGED <<nDevices, child, held, termReq, installed, received, events,
                   exitSends, sent, exitFailed, relay, staleRead, dropped>>

\* Faulty variant: the child is taken and let go without kill().
DropServerLeaks(waitOk, osOk) ==
    /\ pc \in {"idle", "done"}
    /\ ~dropped
    /\ dropped' = TRUE
    /\ held' = FALSE
    /\ UNCHANGED <<pc, outcome, endedAt, nDevices, child, termReq, conn, tStart,
                   tInstall, sinceHb, shortWaits, installed, received, events,
                   exitSends, sent, exitFailed, relay, logTx, staleRead,
                   handled>>

\* Drop for Server: child.take(), kill().ok().
DropServer(waitOk, osOk) ==
    /\ pc \in {"idle", "done"}
    /\ ~dropped
    /\ dropped' = TRUE
    /\ held' = FALSE
    /\ child' = (IF held THEN ChildAfterKill(child, waitOk, osOk) ELSE child)
    /\ termReq' = (IF held THEN TermReqAfterKill(termReq, child, waitOk, osOk)
                           ELSE termReq)
    /\ UNCHANGED <<pc, outcome, endedAt, nDevices, conn, tStart, tInstall,
                   sinceHb, shortWaits, installed, received, events,
                   exitSends, sent,
                   exitFailed, relay, logTx, staleRead, handled>>

\* One round of the log task: the sleep is over, try_recv, then logger.get()
\* (got is what the read answers).
RelayPoll(got) ==
    /\ relay = "running"
    /\ IF RelayEnds(logTx)
         THEN relay' = "cancelled" /\ UNCHANGED staleRead
         ELSE /\ staleRead' = (staleRead \/ pc = "done")
              /\ relay' = (IF got = "error" THEN "failed" ELSE "running")
    /\ UNCHANGED <<pc, outcome, endedAt, nDevices, child, held, termReq, conn,
                   tStart, tInstall, sinceHb, shortWaits, installed, received,
                   events, exitSends, sent, exitFailed, logTx, handled,
                   dropped>>

(***************************************************************************)
(* The specification.                                                      *)
(***************************************************************************)
Next ==
    \/ UNCHANGED restVars
          /\ \E n \in 0..MaxDevices, l \in BOOLEAN, w \in BOOLEAN,
                k \in BOOLEAN, s \in BOOLEAN :
                Install(n, l, w, k, s)
    \/ UNCHANGED restVars /\ Accept
    \/ UNCHANGED restVars /\ AcceptFail
    \/ UNCHANGED restVars /\ \E w \in BOOLEAN : LogSetup(w)
    \/ UNCHANGED restVars /\ Request
    \/ UNCHANGED restVars /\ \E m \in Frames : RecvStart(m)
    \/ UNCHANGED restVars /\ StartTimeoutFire
    \/ UNCHANGED restVars /\ InstCheck
    \/ UNCHANGED restVars /\ \E m \in Frames : InstRecv(m)
    \/ UNCHANGED restVars /\ Finish
    \/ UNCHANGED restVars /\ InstRecvNone
    \/ UNCHANGED restVars /\ OverallTimeout
    \/ UNCHANGED restVars /\ \E d \in TimeSteps : Tick(d)
    \/ UNCHANGED restVars /\ WorkerExit
    \/ UNCHANGED restVars /\ Cancel
    \/ UNCHANGED restVars
          /\ \E w \in BOOLEAN, k \in BOOLEAN : DropServer(w, k)
    \/ UNCHANGED restVars
          /\ \E g \in {"text", "nothing", "error"} : RelayPoll(g)

Spec == Init /\ [][Next]_vars

\* The steps install takes by itself once they are possible: the run-time
\* polls its task whenever a timer it armed has fired or its code can go on.
ServerStep ==
    /\ UNCHANGED restVars
    /\ \/ \E w \in BOOLEAN : LogSetup(w)
       \/ Request
       \/ StartTimeoutFire
       \/ InstCheck
       \/ Finish
       \/ InstRecvNone
       \/ OverallTimeout

FairSpec == Spec /\ WF_vars(ServerStep)

(***************************************************************************)
(* client_connect(pipe_name, timeout) of src/src/ipc.rs: under             *)
(* tokio::time::timeout(timeout, ..) a loop sleeps ConnectPollPeriod and   *)
(* then calls client_open.  Attempts are taken to last no time, so the     *)
(* k-th sleep ends k * ConnectPollPeriod after the call.                   *)
(***************************************************************************)
ConnectTimeouts == 0..MaxConnectTimeout

\* What client_open answers: the pipe, ERROR_PIPE_BUSY, or another error.
OpenResults == {"ok", "busy", "error"}

\* Faulty variant: every failed open is retried.
OpenStepRetriesAll(r) == IF r = "ok" THEN "connected" ELSE "retry"

\* The match on client_open's result.
OpenStep(r) ==
    CASE r = "ok" -> "connected"
      [] r = "busy" -> "retry"
      [] OTHER -> "fail"

\* When the sleep of the current round ends.
NextWake == (Len(cOpens) + 1) * ConnectPollPeriod

\* tokio::time::timeout: the deadline has been reached.
ConnectExpired == cNow >= cTimeout

Earlier(a, b) == IF a <= b THEN a ELSE b

\* The worker calls client_connect with timeout t.
Connect(t) ==
    /\ cPhase = "idle"
    /\ cPhase' = "sleeping"
    /\ cTimeout' = t
    /\ cNow' = 0
    /\ cOpens' = <<>>
    /\ cResult' = "none"
    /\ UNCHANGED <<serverVars, childVars, quoteVars, nameVars, spawnVars,
                   pipeVars, lateVars>>

\* The task is suspended in the sleep until the sleep or the deadline ends.
ConnectSleep ==
    /\ cPhase = "sleeping"
    /\ ~ConnectExpired
    /\ cNow < NextWake
    /\ cNow' = Earlier(NextWake, cTimeout)
    /\ UNCHANGED <<cPhase, cTimeout, cOpens, cResult>>
    /\ UNCHANGED <<serverVars, childVars, quoteVars, nameVars, spawnVars,
                   pipeVars, lateVars>>

\* The sleep is over: client_open is called and answers r.
ConnectOpen(r) ==
    /\ cPhase = "sleeping"
    /\ cNow = NextWake
    /\ cOpens' = Append(cOpens, [at |-> cNow, result |-> r])
    /\ CASE OpenStep(r) = "connected" ->
              cPhase' = "done" /\ cResult' = "Channel"
         [] OpenStep(r) = "retry" ->
              UNCHANGED <<cPhase, cResult>>
         [] OTHER ->
              cPhase' = "done" /\ cResult' = "OpenError"
    /\ UNCHANGED <<cTimeout, cNow>>
    /\ UNCHANGED <<serverVars, childVars, quoteVars, nameVars, spawnVars,
                   pipeVars, lateVars>>

\* The timeout finds its deadline reached while the loop sleeps: `?` returns
\* the Elapsed error.  When the sleep and the deadline end in the same
\* instant, either of ConnectOpen and this step may come first.
ConnectTimeoutFire ==
    /\ cPhase = "sleeping"
    /\ ConnectExpired
    /\ cPhase' = "done"
    /\ cResult' = "Elapsed"
    /\ UNCHANGED <<cTimeout, cNow, cOpens>>
    /\ UNCHANGED <<serverVars, childVars, quoteVars, nameVars, spawnVars,
                   pipeVars, lateVars>>

ConnectNext ==
    \/ \E t \in ConnectTimeouts : Connect(t)
    \/ ConnectSleep
    \/ \E r \in OpenResults : ConnectOpen(r)
    \/ ConnectTimeoutFire

ConnectSpec == Init /\ [][ConnectNext]_vars

(***************************************************************************)
(* runas::Child of src/src/runas.rs: the calls its owner can make on it,   *)
(* in any order, and its drop.  The owner is Rust code: it calls through   *)
(* the value it owns, and the value is dropped once.                       *)
(***************************************************************************)
\* Faulty variant: kill closes process_handle when it is done.
ClosesAfterKillReleases(n) == n + 1

\* Child::kill calls no CloseHandle.
ClosesAfterKill(n) == n

\* Drop for Child: CloseHandle(self.process_handle).
ClosesAfterDrop(n) == n + 1

\* Child::wait returns only when the wait on the handle does: the process
\* has ended, or WaitForSingleObject failed.
WaitReturns(c, waitOk) == WaitRaw(c, waitOk) # "none"

\* The record of one call.
ChildCall(op, waitOk, osOk, ok, signal) ==
    [op |-> op, proc |-> hProc, waitOk |-> waitOk,
     seen |-> WaitRaw(hProc, waitOk) = "some", osOk |-> osOk, ok |-> ok,
     signal |-> signal]

\* Command::spawn returned Ok(Child { process_handle: hProcess, .. }).
ChildSpawn ==
    /\ hState = "none"
    /\ hState' = "owned"
    /\ hProc' = "running"
    /\ UNCHANGED <<hCloses, hStale, hOps>>
    /\ UNCHANGED <<serverVars, connectVars, quoteVars, nameVars, spawnVars,
                   pipeVars, lateVars>>

\* The process ends on its own.
ChildProcExit ==
    /\ hProc = "running"
    /\ hProc' = "exited"
    /\ UNCHANGED <<hState, hCloses, hStale, hOps>>
    /\ UNCHANGED <<serverVars, connectVars, quoteVars, nameVars, spawnVars,
                   pipeVars, lateVars>>

\* Child::try_wait(timeout), the process not changing state meanwhile.
ChildTryWait(waitOk) ==
    /\ hState = "owned"
    /\ Len(hOps) < MaxChildOps
    /\ hStale' = (hStale \/ hCloses > 0)
    /\ hOps' = Append(hOps, ChildCall("try_wait", waitOk, TRUE, waitOk, FALSE))
    /\ UNCHANGED <<hState, hProc, hCloses>>
    /\ UNCHANGED <<serverVars, connectVars, quoteVars, nameVars, spawnVars,
                   pipeVars, lateVars>>

\* Child::wait() returns.
ChildWait(waitOk) ==
    /\ hState = "owned"
    /\ Len(hOps) < MaxChildOps
    /\ WaitReturns(hProc, waitOk)
    /\ hStale' = (hStale \/ hCloses > 0)
    /\ hOps' = Append(hOps, ChildCall("wait", waitOk, TRUE, waitOk, FALSE))
    /\ UNCHANGED <<hState, hProc, hCloses>>
    /\ UNCHANGED <<serverVars, connectVars, quoteVars, nameVars, spawnVars,
                   pipeVars, lateVars>>

\* Child::kill().
ChildKill(waitOk, osOk) ==
    /\ hState = "owned"
    /\ Len(hOps) < MaxChildOps
    /\ hStale' = (hStale \/ hCloses > 0)
    /\ hProc' = ChildAfterKill(hProc, waitOk, osOk)
    /\ hCloses' = ClosesAfterKill(hCloses)
    /\ hOps' = Append(hOps, ChildCall("kill", waitOk, osOk,
                                      KillReturnsOk(hProc, waitOk, osOk),
                                      KillSignals(hProc, waitOk)))
    /\ UNCHANGED hState
    /\ UNCHANGED <<serverVars, connectVars, quoteVars, nameVars, spawnVars,
                   pipeVars, lateVars>>

\* The Child goes out of scope: Drop for Child.
ChildDrop ==
    /\ hState = "owned"
    /\ Len(hOps) < MaxChildOps
    /\ hState' = "dropped"
    /\ hStale' = (hStale \/ hCloses > 0)
    /\ hCloses' = ClosesAfterDrop(hCloses)
    /\ hOps' = Append(hOps, ChildCall("drop", TRUE, TRUE, TRUE, FALSE))
    /\ UNCHANGED hProc
    /\ UNCHANGED <<serverVars, connectVars, quoteVars, nameVars, spawnVars,
                   pipeVars, lateVars>>

ChildNext ==
    \/ ChildSpawn
    \/ ChildProcExit
    \/ \E w \in BOOLEAN : ChildTryWait(w)
    \/ \E w \in BOOLEAN : ChildWait(w)
    \/ \E w \in BOOLEAN, k \in BOOLEAN : ChildKill(w, k)
    \/ ChildDrop

ChildSpec == Init /\ [][ChildNext]_vars

(***************************************************************************)
(* Command::params of src/src/runas.rs for one argument, and what the      *)
(* worker reads back: ShellExecuteExW starts the worker with the parameter *)
(* string after the program name on its command line, and init() takes     *)
(* env::args().nth(1), which Rust's runtime splits by the rules of the     *)
(* Microsoft C runtime.                                                    *)
(***************************************************************************)
Quote == "\""

Backslash == "\\"

Blanks == {" ", "\t"}

\* The characters arguments are built from.
ArgChars == {"a", " ", Quote, Backslash}

SeqsUpTo(S, n) == UNION {[1..k -> S] : k \in 0..n}

ArgStrings == SeqsUpTo(ArgChars, MaxArgLen)

\* Command::quote_param's loop: \ becomes \\, " becomes \", the rest stays.
RECURSIVE Escaped(_)
Escaped(str) ==
    IF str = <<>> THEN <<>>
    ELSE (CASE Head(str) = Backslash -> <<Backslash, Backslash>>
            [] Head(str) = Quote -> <<Backslash, Quote>>
            [] OTHER -> <<Head(str)>>) \o Escaped(Tail(str))

QuoteParam(str) == <<Quote>> \o Escaped(str) \o <<Quote>>

\* s.find(&[' ', '\t', '"'][..]).is_none()
IsPlain(str) == \A i \in DOMAIN str : str[i] \notin Blanks \cup {Quote}

\* The closure of Command::params, for one argument.
Param(arg) ==
    IF arg = <<>> THEN <<Quote, Quote>>
    ELSE IF IsPlain(arg) THEN arg
    ELSE QuoteParam(arg)

\* How many times c stands in w from position i on, without a break.
RECURSIVE RunLength(_, _, _)
RunLength(w, i, c) ==
    IF i <= Len(w) /\ w[i] = c THEN 1 + RunLength(w, i + 1, c) ELSE 0

\* The first position from i on that holds no blank.
RECURSIVE SkipBlanks(_, _)
SkipBlanks(w, i) ==
    IF i <= Len(w) /\ w[i] \in Blanks THEN SkipBlanks(w, i + 1) ELSE i

Repeat(c, n) == [k \in 1..n |-> c]

\* env::args on the command line w from position i on: cur is the argument
\* being read, inQuotes whether a quote is open, out the arguments read.
\* A blank outside quotes ends an argument.  n backslashes before a quote
\* give n / 2 backslashes, and the quote is literal when n is odd;
\* backslashes before anything else stand for themselves.  Inside quotes
\* two quotes give one, a single quote closes.
RECURSIVE ArgsFrom(_, _, _, _, _)
ArgsFrom(w, i, cur, inQuotes, out) ==
    IF i > Len(w)
      THEN (IF cur # <<>> \/ inQuotes THEN Append(out, cur) ELSE out)
    ELSE IF w[i] \in Blanks /\ ~inQuotes
      THEN ArgsFrom(w, SkipBlanks(w, i + 1), <<>>, FALSE, Append(out, cur))
    ELSE IF w[i] = Backslash
      THEN LET n == RunLength(w, i, Backslash)
               j == i + n
           IN  IF j <= Len(w) /\ w[j] = Quote
                 THEN IF n % 2 = 1
                        THEN ArgsFrom(w, j + 1,
                                      cur \o Repeat(Backslash, n \div 2)
                                          \o <<Quote>>,
                                      inQuotes, out)
                        ELSE ArgsFrom(w, j,
                                      cur \o Repeat(Backslash, n \div 2),
                                      inQuotes, out)
                 ELSE ArgsFrom(w, j, cur \o Repeat(Backslash, n), inQuotes,
                               out)
    ELSE IF w[i] = Quote /\ inQuotes
      THEN IF i = Len(w) THEN Append(out, cur)
           ELSE IF w[i + 1] = Quote
             THEN ArgsFrom(w, i + 2, Append(cur, Quote), TRUE, out)
           ELSE ArgsFrom(w, i + 1, cur, FALSE, out)
    ELSE IF w[i] = Quote
      THEN ArgsFrom(w, i + 1, cur, TRUE, out)
    ELSE ArgsFrom(w, i + 1, Append(cur, w[i]), inQuotes, out)

\* The arguments after the program name, for the parameter string w.
WorkerArgs(w) == ArgsFrom(w, SkipBlanks(w, 1), <<>>, FALSE, <<>>)

\* Command::arg(a).
QuoteArg(a) ==
    /\ qStage = "none"
    /\ qStage' = "arg"
    /\ qArg' = a
    /\ UNCHANGED <<qParam, qArgs>>
    /\ UNCHANGED <<serverVars, connectVars, childVars, nameVars, spawnVars,
                   pipeVars, lateVars>>

\* Command::spawn: let params = self.params().
QuoteBuild ==
    /\ qStage = "arg"
    /\ qStage' = "param"
    /\ qParam' = Param(qArg)
    /\ UNCHANGED <<qArg, qArgs>>
    /\ UNCHANGED <<serverVars, connectVars, childVars, nameVars, spawnVars,
                   pipeVars, lateVars>>

\* The worker starts: init() reads env::args().
QuoteRead ==
    /\ qStage = "param"
    /\ qStage' = "parsed"
    /\ qArgs' = WorkerArgs(qParam)
    /\ UNCHANGED <<qArg, qParam>>
    /\ UNCHANGED <<serverVars, connectVars, childVars, nameVars, spawnVars,
                   pipeVars, lateVars>>

QuoteNext ==
    \/ \E a \in ArgStrings : QuoteArg(a)
    \/ QuoteBuild
    \/ QuoteRead

QuoteSpec == Init /\ [][QuoteNext]_vars

(***************************************************************************)
(* pipe_name and Server::get_pipe_name of src/src/lib.rs.                  *)
(***************************************************************************)
\* r"\\.\pipe\"
PipePrefix ==
    <<Backslash, Backslash, ".", Backslash, "p", "i", "p", "e", Backslash>>

\* r"\\."
DevicePrefix == <<Backslash, Backslash, ".">>

\* Server::DEFAULT_PIPE_ID
DefaultPipeId ==
    <<"w", "i", "n", "u", "s", "b", "-", "d", "r", "i", "v", "e", "r", "-",
      "i", "n", "s", "t", "a", "l", "l", "e", "r">>

\* The ids the model sets: any leading part of PipePrefix, then up to
\* MaxIdTail characters.
IdChars == {Backslash, ".", "x"}

PipeIds ==
    {SubSeq(PipePrefix, 1, k) \o t :
        k \in 0..Len(PipePrefix), t \in SeqsUpTo(IdChars, MaxIdTail)}

\* str::starts_with
StartsWith(str, lead) ==
    Len(str) >= Len(lead) /\ SubSeq(str, 1, Len(lead)) = lead

\* Faulty variant: the assertion is gone.
RejectsNothing(id) == FALSE

\* The assertion of pipe_name fails.
Rejects(id) == StartsWith(id, DevicePrefix)

\* pipe_name(pipe_id), past its assertion.
PipeName(id) == PipePrefix \o id

\* self.pipe_id.as_deref().unwrap_or(Self::DEFAULT_PIPE_ID)
PipeIdOr(opt, default) == IF opt = <<>> THEN default ELSE opt[1]

\* Server::pipe_id(id)
SetPipeId(id) ==
    /\ nStage = "new"
    /\ nStage' = "set"
    /\ nPipeId' = <<id>>
    /\ UNCHANGED <<nResult, nName>>
    /\ UNCHANGED <<serverVars, connectVars, childVars, quoteVars, spawnVars,
                   pipeVars, lateVars>>

\* Server::get_pipe_name()
GetPipeName ==
    /\ nStage \in {"new", "set"}
    /\ nStage' = "named"
    /\ LET id == PipeIdOr(nPipeId, DefaultPipeId)
       IN  IF Rejects(id)
             THEN nResult' = "panic" /\ nName' = <<>>
             ELSE nResult' = "name" /\ nName' = PipeName(id)
    /\ UNCHANGED nPipeId
    /\ UNCHANGED <<serverVars, connectVars, childVars, quoteVars, spawnVars,
                   pipeVars, lateVars>>

NameNext ==
    \/ \E id \in PipeIds : SetPipeId(id)
    \/ GetPipeName

NameSpec == Init /\ [][NameNext]_vars

(***************************************************************************)
(* Command::spawn of src/src/runas.rs, from the answer of ShellExecuteExW  *)
(* on: ret is what the call returns; hInstApp and hProcess are what it     *)
(* leaves in exec_info (hProcess: whether the handle is valid).  A call    *)
(* that returns FALSE leaves an error code, and an error code comes with   *)
(* no handle.                                                              *)
(***************************************************************************)
OsAnswers ==
    {a \in [ret : BOOLEAN, hInstApp : 0..MaxHInst, hProcess : BOOLEAN] :
        /\ ~a.ret => a.hInstApp <= SE_ERR_DLLNOTFOUND
        /\ a.hInstApp <= SE_ERR_DLLNOTFOUND => ~a.hProcess}

\* An io::Error of kind Other: its message, and the number formatted into it.
OtherError(text, n) == [ok |-> FALSE, text |-> text, code |-> n]

SpawnedChild == [ok |-> TRUE, text |-> "", code |-> 0]

\* se_err_string(err)
SeErrString(err) ==
    CASE err = SE_ERR_FNF -> OtherError("File not found.", 0)
      [] err = SE_ERR_PNF -> OtherError("Path not found.", 0)
      [] err = SE_ERR_ACCESSDENIED -> OtherError("Access denied.", 0)
      [] err = SE_ERR_OOM -> OtherError("Out of memory.", 0)
      [] err = SE_ERR_DLLNOTFOUND ->
            OtherError("Dynamic-link library not found.", 0)
      [] err = SE_ERR_SHARE -> OtherError("Cannot share an open file.", 0)
      [] err = SE_ERR_ASSOCINCOMPLETE ->
            OtherError("File association information not complete.", 0)
      [] err = SE_ERR_DDETIMEOUT -> OtherError("DDE operation timed out.", 0)
      [] err = SE_ERR_DDEFAIL -> OtherError("DDE operation failed.", 0)
      [] err = SE_ERR_DDEBUSY -> OtherError("DDE operation is busy.", 0)
      [] err = SE_ERR_NOASSOC ->
            OtherError("File association not available.", 0)
      [] OTHER -> OtherError("Unexpected SE_ERR_* code: ", err)

\* What Command::spawn returns when ShellExecuteExW answered a.
SpawnResult(a) ==
    IF ~a.ret THEN OtherError("ShellExecuteExW failed", 0)
    ELSE IF a.hInstApp < FirstNonError THEN SeErrString(a.hInstApp)
    ELSE IF ~a.hProcess THEN OtherError("No process was spawned", 0)
    ELSE SpawnedChild

\* Command::spawn(), ShellExecuteExW answering a.
Spawn(a) ==
    /\ Len(sCalls) < 2
    /\ sCalls' = Append(sCalls, [os |-> a, result |-> SpawnResult(a)])
    /\ UNCHANGED <<serverVars, connectVars, childVars, quoteVars, nameVars,
                   pipeVars, lateVars>>

SpawnNext == \E a \in OsAnswers : Spawn(a)

SpawnSpec == Init /\ [][SpawnNext]_vars

(***************************************************************************)
(* server_create of src/src/ipc.rs and the instances of its pipe name.     *)
(* Windows refuses to create an instance with the first-instance flag      *)
(* while the name has an instance; without the flag it adds one.  Other    *)
(* processes create and close instances of the name as they like.          *)
(***************************************************************************)
\* Faulty variant: the flag is not set.
FirstPipeInstanceOff == FALSE

\* ServerOptions::new().first_pipe_instance(true)
FirstPipeInstance == TRUE

\* CreateNamedPipe lets an instance be created.
CreateAllowed(first, existing) == ~first \/ existing = <<>>

Without(seq, i) == SubSeq(seq, 1, i - 1) \o SubSeq(seq, i + 1, Len(seq))

Owns(who) == \E i \in DOMAIN pInstances : pInstances[i].owner = who

\* install creates its listener: Installation::server(&pipe_name) calls
\* server_create; osOk is FALSE when the creation fails for another reason.
\* install runs on &mut Server and drops the listener when it returns, so
\* it holds none when it creates one.
ServerCreate(osOk) ==
    /\ ~Owns("server")
    /\ Len(pTries) < MaxPipeTries
    /\ Len(pInstances) < MaxInstances
    /\ LET ok == osOk /\ CreateAllowed(FirstPipeInstance, pInstances)
       IN  /\ pTries' = Append(pTries,
                               [existing |-> Len(pInstances), ok |-> ok])
           /\ pInstances' =
                 (IF ok
                    THEN Append(pInstances, [owner |-> "server",
                                             first |-> FirstPipeInstance])
                    ELSE pInstances)
    /\ UNCHANGED <<serverVars, connectVars, childVars, quoteVars, nameVars,
                   spawnVars, lateVars>>

\* install returns, or its future is dropped: the listener goes.
ServerClose ==
    /\ \E i \in DOMAIN pInstances :
          /\ pInstances[i].owner = "server"
          /\ pInstances' = Without(pInstances, i)
    /\ UNCHANGED pTries
    /\ UNCHANGED <<serverVars, connectVars, childVars, quoteVars, nameVars,
                   spawnVars, lateVars>>

\* Another process creates an instance of the name.
OtherCreate(first) ==
    /\ Len(pInstances) < MaxInstances
    /\ CreateAllowed(first, pInstances)
    /\ pInstances' = Append(pInstances, [owner |-> "other", first |-> first])
    /\ UNCHANGED pTries
    /\ UNCHANGED <<serverVars, connectVars, childVars, quoteVars, nameVars,
                   spawnVars, lateVars>>

\* Another process closes one of its instances.
OtherClose ==
    /\ \E i \in DOMAIN pInstances :
          /\ pInstances[i].owner = "other"
          /\ pInstances' = Without(pInstances, i)
    /\ UNCHANGED pTries
    /\ UNCHANGED <<serverVars, connectVars, childVars, quoteVars, nameVars,
                   spawnVars, lateVars>>

PipeNext ==
    \/ \E k \in BOOLEAN : ServerCreate(k)
    \/ ServerClose
    \/ \E f \in BOOLEAN : OtherCreate(f)
    \/ OtherClose

PipeSpec == Init /\ [][PipeNext]_vars

(***************************************************************************)
(* Client::serve of src/src/lib.rs, the worker's loop, with Client::install *)
(* and the thread that runs Client::install_sync.  The steps are written   *)
(* over the worker's variables alone.  A send completes at once when the   *)
(* pipe has room and waits otherwise; it fails once the orchestrator's end *)
(* is closed.  Time is counted only while the loop waits for the queue.    *)
(***************************************************************************)
ServerMsgKinds == {"Install", "Logging", "Exit"}

\* What the orchestrator's end can put on the pipe: a ServerMsg, or a frame
\* that does not decode.
Commands == ServerMsgKinds \cup {"Malformed"}

Msg(k) == [kind |-> k]

DeviceInstall(d, ok) == [kind |-> "DeviceInstall", dev |-> d, ok |-> ok]

HalfPeriod == HeartbeatPeriod \div 2

\* How long the model lets time pass in one step of a wait.
WaitSteps == {HalfPeriod, HeartbeatPeriod}

\* Faulty variant: serve reads the pipe wherever it stands.
ReadsInboxAnywhere(p) == p \notin {"off", "ended"}

\* serve calls client.try_next() only at the top of its loop; while
\* self.install(..).await runs nothing reads the pipe.
ReadsInbox(p) == p = "recv"

\* Faulty variant: the end of the stream ends the loop.
OnNoneBreaks == "break"

\* `if let Some(msg) = client.try_next().await?`: on None the loop goes round.
OnNone == "continue"

\* Faulty variant: the loop waits for the queue without a timeout.
WaitExpiredNever(w) == FALSE

\* tokio::time::timeout(Duration::from_millis(1000), rx.recv())
WaitExpired(w) == w >= HeartbeatPeriod

\* Faulty variant: the loop ends as soon as the queue is empty.
QueueClosedWhenEmpty(b) == TRUE

\* rx.recv() yields None once every sender is gone: tx lives in the thread's
\* closure and goes when install_sync returns or unwinds.
QueueClosed(b) == b \in {"finished", "panicked", "gone"}

PipeHasRoom == Len(wOut) < MaxInFlight

\* io.send(m).await returned Ok.
WSend(m) ==
    /\ wOut' = Append(wOut, m)
    /\ wCycle' = Append(wCycle, m)

\* serve is over: it returned res, or the process is gone.
WEnd(res) ==
    /\ wPc' = "ended"
    /\ wResult' = res

\* Installation::client(..).await? at the top of serve.
WorkerStart(connected) ==
    /\ wPc = "off"
    /\ IF connected
         THEN wPc' = "recv" /\ UNCHANGED wResult
         ELSE WEnd("Err")
    /\ UNCHANGED <<wLast, wInbox, wPeer, wOut, wCycle, wWait, wIdle, wCmds,
                   bState, bLeft, wQueue, wProduced>>

\* client.try_next().await? yields a frame, and the match on it.  setupOk
\* is what LogReceiver::client_setup answers.  For Install, InstallStarted
\* is sent, the queue is made and the thread spawned.
WorkerRecv(setupOk) ==
    /\ ReadsInbox(wPc)
    /\ wInbox # <<>>
    /\ wInbox' = Tail(wInbox)
    /\ wLast' = Head(wInbox)
    /\ UNCHANGED <<wPeer, wWait, wCmds, bLeft>>
    /\ CASE Head(wInbox) = "Exit" ->
              /\ WEnd("Ok")
              /\ UNCHANGED <<wOut, wCycle, wIdle, bState, wQueue, wProduced>>
         [] Head(wInbox) = "Logging" ->
              /\ IF setupOk THEN UNCHANGED <<wPc, wResult>> ELSE WEnd("Err")
              /\ UNCHANGED <<wOut, wCycle, wIdle, bState, wQueue, wProduced>>
         [] Head(wInbox) = "Install" /\ wPeer = "closed" ->
              /\ WEnd("Err")
              /\ UNCHANGED <<wOut, wCycle, wIdle, bState, wQueue, wProduced>>
         [] Head(wInbox) = "Install" /\ wPeer = "open" ->
              /\ PipeHasRoom
              /\ wOut' = Append(wOut, Msg("InstallStarted"))
              /\ wCycle' = <<Msg("InstallStarted")>>
              /\ wPc' = "beat"
              /\ wIdle' = 0
              /\ bState' = "discover"
              /\ wQueue' = <<>>
              /\ wProduced' = <<>>
              /\ UNCHANGED wResult
         [] OTHER ->
              /\ WEnd("Err")
              /\ UNCHANGED <<wOut, wCycle, wIdle, bState, wQueue, wProduced>>

\* client.try_next() on a pipe whose other end is closed, nothing left to
\* read: None when the close reads as the end of the stream, an error
\* otherwise.
WorkerRecvEnd(asNone) ==
    /\ ReadsInbox(wPc)
    /\ wInbox = <<>>
    /\ wPeer = "closed"
    /\ wLast' = (IF asNone THEN "None" ELSE "Error")
    /\ IF ~asNone THEN WEnd("Err")
       ELSE IF OnNone = "continue" THEN UNCHANGED <<wPc, wResult>>
       ELSE WEnd("Ok")
    /\ UNCHANGED <<wInbox, wPeer, wOut, wCycle, wWait, wIdle, wCmds, bState,
                   bLeft, wQueue, wProduced>>

\* Top of install's loop: io.send(ClientMsg::Heatbeat).await.unwrap().
WorkerBeat ==
    /\ wPc = "beat"
    /\ IF wPeer = "closed"
         THEN WEnd("Panic") /\ UNCHANGED <<wOut, wCycle, wWait>>
         ELSE /\ PipeHasRoom
              /\ WSend(Msg("Heatbeat"))
              /\ wPc' = "wait"
              /\ wWait' = 0
              /\ UNCHANGED wResult
    /\ UNCHANGED <<wLast, wInbox, wPeer, wIdle, wCmds, bState, bLeft, wQueue,
                   wProduced>>

\* rx.recv() yields Some(msg): io.send(msg).await?, then round again.
WorkerForward ==
    /\ wPc = "wait"
    /\ wQueue # <<>>
    /\ wQueue' = Tail(wQueue)
    /\ IF wPeer = "closed"
         THEN WEnd("Err") /\ UNCHANGED <<wOut, wCycle>>
         ELSE /\ PipeHasRoom
              /\ WSend(Head(wQueue))
              /\ wPc' = "beat"
              /\ UNCHANGED wResult
    /\ UNCHANGED <<wLast, wInbox, wPeer, wWait, wIdle, wCmds, bState, bLeft,
                   wProduced>>

\* rx.recv() yields None: break.
WorkerQueueEnd ==
    /\ wPc = "wait"
    /\ wQueue = <<>>
    /\ QueueClosed(bState)
    /\ wPc' = "join"
    /\ UNCHANGED <<wResult, wLast, wInbox, wPeer, wOut, wCycle, wWait, wIdle,
                   wCmds, bState, bLeft, wQueue, wProduced>>

\* The 1000 ms are over with nothing in the queue: the next heartbeat.
WorkerWaitTimeout ==
    /\ wPc = "wait"
    /\ wQueue = <<>>
    /\ ~QueueClosed(bState)
    /\ WaitExpired(wWait)
    /\ wIdle < MaxIdle
    /\ wIdle' = wIdle + 1
    /\ wPc' = "beat"
    /\ UNCHANGED <<wResult, wLast, wInbox, wPeer, wOut, wCycle, wWait, wCmds,
                   bState, bLeft, wQueue, wProduced>>

\* installer.await? (an error when the thread panicked), Ok(()) from
\* install, then client.send(ClientMsg::InstallDone).await? in serve.
WorkerJoin ==
    /\ wPc = "join"
    /\ IF bState = "panicked" \/ wPeer = "closed"
         THEN WEnd("Err") /\ UNCHANGED <<wOut, wCycle>>
         ELSE /\ PipeHasRoom
              /\ WSend(Msg("InstallDone"))
              /\ wPc' = "recv"
              /\ UNCHANGED wResult
    /\ UNCHANGED <<wLast, wInbox, wPeer, wWait, wIdle, wCmds, bState, bLeft,
                   wQueue, wProduced>>

\* d ms pass while the loop waits for the queue and nothing comes.
WorkerTick(d) ==
    /\ wPc = "wait"
    /\ wQueue = <<>>
    /\ ~QueueClosed(bState)
    /\ \A k \in 0..((d \div HalfPeriod) - 1) :
          ~WaitExpired(wWait + k * HalfPeriod)
    /\ wWait' = wWait + d
    /\ UNCHANGED <<wPc, wResult, wLast, wInbox, wPeer, wOut, wCycle, wIdle,
                   wCmds, bState, bLeft, wQueue, wProduced>>

\* The loop has let go of rx: install returned or serve is over.
RxDropped == wPc \in {"recv", "ended"}

\* Faulty variant: after sending the Error the thread panics instead of
\* returning.
BackendDiscoverThenPanics(ok, n) ==
    /\ bState = "discover"
    /\ IF RxDropped
         THEN bState' = "panicked" /\ UNCHANGED <<bLeft, wQueue, wProduced>>
       ELSE IF ~ok
         THEN /\ wQueue' = Append(wQueue, Msg("Error"))
              /\ wProduced' = Append(wProduced, Msg("Error"))
              /\ bState' = "panicked"
              /\ UNCHANGED bLeft
       ELSE /\ bLeft' = n
            /\ bState' = (IF n = 0 THEN "finished" ELSE "installing")
            /\ UNCHANGED <<wQueue, wProduced>>
    /\ UNCHANGED <<wPc, wResult, wLast, wInbox, wPeer, wOut, wCycle, wWait,
                   wIdle, wCmds>>

\* install_sync: winusb::Devices::new answers.  An error is sent as
\* ClientMsg::Error; otherwise n candidates are to be installed.
BackendDiscover(ok, n) ==
    /\ bState = "discover"
    /\ IF RxDropped
         THEN bState' = "panicked" /\ UNCHANGED <<bLeft, wQueue, wProduced>>
       ELSE IF ~ok
         THEN /\ wQueue' = Append(wQueue, Msg("Error"))
              /\ wProduced' = Append(wProduced, Msg("Error"))
              /\ bState' = "finished"
              /\ UNCHANGED bLeft
       ELSE /\ bLeft' = n
            /\ bState' = (IF n = 0 THEN "finished" ELSE "installing")
            /\ UNCHANGED <<wQueue, wProduced>>
    /\ UNCHANGED <<wPc, wResult, wLast, wInbox, wPeer, wOut, wCycle, wWait,
                   wIdle, wCmds>>

\* One round of `for (dev, result) in devices.install_iter(&config)`: the
\* native call returns and io.send(DeviceInstall(..)).unwrap() runs.
BackendInstall(ok) ==
    /\ bState = "installing"
    /\ IF RxDropped
         THEN bState' = "panicked" /\ UNCHANGED <<bLeft, wQueue, wProduced>>
         ELSE /\ wQueue' =
                    Append(wQueue, DeviceInstall(Len(wProduced) + 1, ok))
              /\ wProduced' =
                    Append(wProduced, DeviceInstall(Len(wProduced) + 1, ok))
              /\ bLeft' = bLeft - 1
              /\ bState' = (IF bLeft = 1 THEN "finished" ELSE "installing")
    /\ UNCHANGED <<wPc, wResult, wLast, wInbox, wPeer, wOut, wCycle, wWait,
                   wIdle, wCmds>>

\* The thread panics in a native call or an unwrap of its own.
BackendPanic ==
    /\ bState \in {"discover", "installing"}
    /\ bState' = "panicked"
    /\ UNCHANGED <<wPc, wResult, wLast, wInbox, wPeer, wOut, wCycle, wWait,
                   wIdle, wCmds, bLeft, wQueue, wProduced>>

\* The worker process is terminated from outside; its thread goes with it.
WorkerKilled ==
    /\ wPc \notin {"off", "ended"}
    /\ WEnd("Killed")
    /\ bState' = (IF bState \in {"discover", "installing"} THEN "gone"
                  ELSE bState)
    /\ UNCHANGED <<wLast, wInbox, wPeer, wOut, wCycle, wWait, wIdle, wCmds,
                   bLeft, wQueue, wProduced>>

\* The orchestrator's end: it sends c, it takes what the worker sent, it is
\* closed.
OrchSend(c) ==
    /\ wPc # "off"
    /\ wPeer = "open"
    /\ wCmds < MaxCommands
    /\ wCmds' = wCmds + 1
    /\ wInbox' = Append(wInbox, c)
    /\ UNCHANGED <<wPc, wResult, wLast, wPeer, wOut, wCycle, wWait, wIdle,
                   bState, bLeft, wQueue, wProduced>>

OrchTake ==
    /\ wOut # <<>>
    /\ wOut' = Tail(wOut)
    /\ UNCHANGED <<wPc, wResult, wLast, wInbox, wPeer, wCycle, wWait, wIdle,
                   wCmds, bState, bLeft, wQueue, wProduced>>

OrchClose ==
    /\ wPc # "off"
    /\ wPeer = "open"
    /\ wPeer' = "closed"
    /\ UNCHANGED <<wPc, wResult, wLast, wInbox, wOut, wCycle, wWait, wIdle,
                   wCmds, bState, bLeft, wQueue, wProduced>>

\* What the worker's steps leave alone.
notWorker ==
    <<serverVars, connectVars, childVars, quoteVars, nameVars, spawnVars,
      pipeVars, linkVars, callVars>>

WorkerNext ==
    \/ UNCHANGED notWorker /\ \E c \in BOOLEAN : WorkerStart(c)
    \/ UNCHANGED notWorker /\ \E s \in BOOLEAN : WorkerRecv(s)
    \/ UNCHANGED notWorker /\ \E a \in BOOLEAN : WorkerRecvEnd(a)
    \/ UNCHANGED notWorker /\ WorkerBeat
    \/ UNCHANGED notWorker /\ WorkerForward
    \/ UNCHANGED notWorker /\ WorkerQueueEnd
    \/ UNCHANGED notWorker /\ WorkerWaitTimeout
    \/ UNCHANGED notWorker /\ WorkerJoin
    \/ UNCHANGED notWorker /\ \E d \in WaitSteps : WorkerTick(d)
    \/ UNCHANGED notWorker
          /\ \E ok \in BOOLEAN, n \in 0..MaxResults : BackendDiscover(ok, n)
    \/ UNCHANGED notWorker /\ \E ok \in BOOLEAN : BackendInstall(ok)
    \/ UNCHANGED notWorker /\ BackendPanic
    \/ UNCHANGED notWorker /\ WorkerKilled
    \/ UNCHANGED notWorker /\ \E c \in Commands : OrchSend(c)
    \/ UNCHANGED notWorker /\ OrchTake
    \/ UNCHANGED notWorker /\ OrchClose

WorkerSpec == Init /\ [][WorkerNext]_vars

(***************************************************************************)
(* One session end to end: Server::install with the worker it spawns       *)
(* running Client::serve, over a pipe that keeps the order of each         *)
(* direction and delivers within ChannelDelay.  The steps are the Server's *)
(* and the worker's own; what is put together here is the pipe, the two    *)
(* processes' lifetimes and the time they share.  The operating system     *)
(* calls of the launch succeed, nobody drops install or kills the worker,  *)
(* and the installer thread does not panic.                                *)
(***************************************************************************)
\* Faulty variant: a message may be on its way for longer than what
\* heartbeat_timeout leaves beyond the heartbeat period.
ChannelDelayPastMargin == HeartbeatTimeout - HalfPeriod

\* The longest a message is on its way: less than what heartbeat_timeout
\* leaves beyond the worker's heartbeat period.
ChannelDelay == HeartbeatTimeout - HeartbeatPeriod - HalfPeriod

\* What the steps of a session leave alone.
notE2E ==
    <<connectVars, childVars, quoteVars, nameVars, spawnVars, pipeVars,
      callVars>>

\* A step of install: a message it sent with success reaches the worker's
\* end, and its own end of the pipe goes when it returns.
ByServer(A) ==
    /\ A
    /\ wInbox' = (IF sent' # sent /\ SendSucceeds(conn)
                    THEN Append(wInbox, sent'[Len(sent')]) ELSE wInbox)
    /\ wPeer' = (IF pc' = "done" /\ pc # "idle" THEN "closed" ELSE wPeer)
    /\ UNCHANGED <<wPc, wResult, wLast, wOut, wCycle, wWait, wIdle, wCmds,
                   bState, bLeft, wQueue, wProduced>>
    /\ UNCHANGED <<linkVars, notE2E>>

\* A step of install that takes the oldest message on its way.
ByServerTaking(A) ==
    /\ A
    /\ wOut' = Tail(wOut)
    /\ eAges' = Tail(eAges)
    /\ wPeer' = (IF pc' = "done" THEN "closed" ELSE wPeer)
    /\ UNCHANGED <<wPc, wResult, wLast, wInbox, wCycle, wWait, wIdle, wCmds,
                   bState, bLeft, wQueue, wProduced>>
    /\ UNCHANGED notE2E

\* A step of the worker or of its thread: what it sends starts its way, and
\* when serve is over the process exits.
ByWorker(A) ==
    /\ A
    /\ eAges' = (IF Len(wOut') > Len(wOut) THEN Append(eAges, 0) ELSE eAges)
    /\ IF wPc' = "ended" /\ wPc # "ended"
         THEN WorkerExit
         ELSE UNCHANGED serverVars
    /\ UNCHANGED notE2E

\* The worker opens the pipe and server.connect() completes.
E2EConnect ==
    /\ Accept
    /\ WorkerStart(TRUE)
    /\ UNCHANGED <<linkVars, notE2E>>

\* install or the worker has a step to take that waits for nothing.  A
\* send of the worker that finds the pipe full does wait.
ServerBusy == pc \in {"logsetup", "request", "inst_check", "finish"}

WorkerBusy ==
    \/ wPc \in {"beat", "join"} /\ PipeHasRoom
    \/ wPc = "recv" /\ wInbox # <<>>
    \/ wPc = "wait" /\ wQueue # <<>> /\ PipeHasRoom
    \/ wPc = "wait" /\ wQueue = <<>> /\ QueueClosed(bState)

\* How long time passes in one step of a session: the worker's steps, and
\* the one round of install's loop that brings a heartbeat check to fail.
E2ESteps == WaitSteps \cup {PollInterval}

\* d ms pass for both processes and for the messages on their way.
E2ETick(d) ==
    /\ d = PollInterval
          => pc = "inst_recv" /\ HeartbeatExpired(sinceHb + PollInterval)
    /\ ~ServerBusy
    /\ ~WorkerBusy
    /\ \A i \in DOMAIN eAges : eAges[i] + d <= ChannelDelay
    /\ eAges' = [i \in DOMAIN eAges |-> eAges[i] + d]
    /\ IF pc \in {"await_start", "inst_recv"}
         THEN Tick(d)
         ELSE UNCHANGED serverVars
    /\ IF wPc = "wait" /\ wQueue = <<>>
         THEN WorkerTick(d)
         ELSE UNCHANGED workerVars
    /\ pc \in {"await_start", "inst_recv"} \/ wPc = "wait"
    /\ UNCHANGED notE2E

\* The steps install takes by itself.  The worker does not end while the
\* installation loop runs and the thread is done long before the 6 min, so
\* the loop neither finds the pipe closed nor is it cut off.
E2EServerStep ==
    \/ ByServer(\E w \in BOOLEAN : LogSetup(w))
    \/ ByServer(Request)
    \/ ByServer(StartTimeoutFire)
    \/ ByServer(InstCheck)
    \/ ByServer(Finish)

\* A message reaches install.
E2EDeliver ==
    \/ wOut # <<>> /\ ByServerTaking(RecvStart(wOut[1]))
    \/ wOut # <<>> /\ ByServerTaking(InstRecv(wOut[1]))

\* The steps of serve.  install returns only after the worker has ended or
\* after Exit was sent, so serve never finds the pipe closed and empty.
E2EWorkerStep ==
    \/ ByWorker(\E s \in BOOLEAN : WorkerRecv(s))
    \/ ByWorker(WorkerBeat)
    \/ ByWorker(WorkerForward)
    \/ ByWorker(WorkerQueueEnd)
    \/ ByWorker(WorkerWaitTimeout)
    \/ ByWorker(WorkerJoin)

\* The steps of the installer thread.
E2EBackendStep ==
    \/ ByWorker(\E ok \in BOOLEAN, n \in 0..MaxResults :
                    BackendDiscover(ok, n))
    \/ ByWorker(\E ok \in BOOLEAN : BackendInstall(ok))

E2ENext ==
    \/ /\ \E n \in 0..MaxDevices : Install(n, TRUE, TRUE, TRUE, TRUE)
       /\ UNCHANGED restVars
    \/ E2EConnect
    \/ E2EServerStep
    \/ E2EDeliver
    \/ E2EWorkerStep
    \/ E2EBackendStep
    \/ \E d \in E2ESteps : E2ETick(d)

E2ESpec == Init /\ [][E2ENext]_vars

\* Both run-times poll their tasks, the thread runs, and the pipe delivers.
E2EFairSpec ==
    /\ E2ESpec
    /\ WF_vars(E2EConnect)
    /\ WF_vars(E2EServerStep)
    /\ WF_vars(E2EDeliver)
    /\ WF_vars(E2EWorkerStep)
    /\ WF_vars(E2EBackendStep)

(***************************************************************************)
(* One Server over several install calls.  install takes &mut self, so the *)
(* calls follow one another; Server.child is what one call leaves to the   *)
(* next.  The steps of a call are the Server's; what is added is the next  *)
(* call and the workers that no field of the Server refers to any more.    *)
(* The log tasks are not followed from one call to the next.               *)
(***************************************************************************)
\* What the steps of the calls leave alone.
notCalls ==
    <<connectVars, childVars, quoteVars, nameVars, spawnVars, pipeVars,
      workerVars, linkVars>>

\* The worker c runs on after spawn_client has dealt with it: it was not
\* Server.child (h false), so kill was not called.
StillRunning(c, h, waitOk, osOk) ==
    (IF h THEN ChildAfterKill(c, waitOk, osOk) ELSE c) = "running"

\* install is called.  When it spawns, Server.child becomes the new worker;
\* the one before it is no field of the Server any more.
CallInstall(n, listenerOk, waitOk, osOk, spawnOk) ==
    /\ Install(n, listenerOk, waitOk, osOk, spawnOk)
    /\ orphans' = (IF pc' = "accept" /\ StillRunning(child, held, waitOk, osOk)
                     THEN orphans + 1 ELSE orphans)
    /\ UNCHANGED <<calls, notCalls>>

\* install has returned and is called again on the same Server: the locals
\* of the call are new, the fields of the Server are as they were left.
NextCall ==
    /\ pc = "done"
    /\ ~dropped
    /\ calls < MaxRepeats
    /\ calls' = calls + 1
    /\ pc' = "idle"
    /\ outcome' = "none"
    /\ endedAt' = "none"
    /\ nDevices' = 0
    /\ conn' = "none"
    /\ installed' = 0
    /\ received' = <<>>
    /\ events' = <<>>
    /\ exitSends' = 0
    /\ exitFailed' = FALSE
    /\ sent' = <<>>
    /\ relay' = "none"
    /\ logTx' = "none"
    /\ staleRead' = FALSE
    /\ handled' = "none"
    /\ UNCHANGED <<child, held, termReq, tStart, tInstall, sinceHb,
                   shortWaits, dropped>>
    /\ UNCHANGED <<orphans, notCalls>>

\* A worker of an earlier call ends on its own.
OrphanExit ==
    /\ orphans > 0
    /\ orphans' = orphans - 1
    /\ UNCHANGED <<serverVars, calls, notCalls>>

CallsNext ==
    \/ \E n \in 0..MaxDevices, l \in BOOLEAN, w \in BOOLEAN,
          k \in BOOLEAN, s \in BOOLEAN :
          CallInstall(n, l, w, k, s)
    \/ NextCall
    \/ OrphanExit
    \/ UNCHANGED restVars /\ Accept
    \/ UNCHANGED restVars /\ AcceptFail
    \/ UNCHANGED restVars /\ \E m \in Frames : RecvStart(m)
    \/ UNCHANGED restVars /\ \E m \in Frames : InstRecv(m)
    \/ ServerStep
    \/ UNCHANGED restVars /\ \E d \in TimeSteps : Tick(d)
    \/ UNCHANGED restVars /\ WorkerExit
    \/ UNCHANGED restVars /\ Cancel
    \/ UNCHANGED restVars
          /\ \E w \in BOOLEAN, k \in BOOLEAN : DropServer(w, k)

CallsSpec == Init /\ [][CallsNext]_vars

(***************************************************************************)
(* Properties.                                                             *)
(***************************************************************************)
Installing == pc \in {"inst_check", "inst_recv"}

OkCount(seq) == Cardinality({i \in DOMAIN seq : seq[i].ok})

Outcomes(seq) == [i \in DOMAIN seq |-> ProgressDevice(seq[i])]

\* C1: once install waits in the accept, it leaves it: the call ends even
\* when the worker never connects.
C1_AcceptEnds == (pc = "accept") ~> (pc = "done")

\* C2: in the Installing phase the receive is never armed with the heartbeat
\* deadline passed, the deadline is never overrun by more than one
\* PollInterval, a check made past the deadline ends install with the
\* "No heatbeat" timeout error, and taking a DeviceInstall or an Error leaves
\* the time since the last heartbeat as it was.
C2_HeartbeatTimeout ==
    /\ [](pc = "inst_recv" => sinceHb <= HeartbeatTimeout)
    /\ [](pc = "inst_check" => sinceHb <= HeartbeatTimeout + PollInterval)
    /\ [](outcome = "NoHeartbeat" => pc = "done" /\ endedAt = "inst_check")
    /\ [][pc = "inst_check" /\ sinceHb > HeartbeatTimeout /\ pc' # pc
            => outcome' = "NoHeartbeat"]_vars
    /\ [][pc = "inst_recv" /\ handled' \in {"DeviceInstall", "Error"}
            => sinceHb' = sinceHb]_vars

\* C2 witness: the heartbeat timeout ended a session in which no device
\* result was ever received.
C2_Witness ==
    outcome = "NoHeartbeat" /\ endedAt = "inst_check" /\ received = <<>>

\* C3: the Installing phase never outlasts the overall timeout and sends no
\* Exit while it runs; when it is ended by that timeout, Exit was handed to
\* send exactly once and install returned the timeout error, whether or not
\* that send failed.
C3_OverallTimeout ==
    /\ Installing => tInstall <= InstallTimeout /\ exitSends = 0
    /\ (endedAt = "inst_recv" /\ outcome = "Elapsed") => exitSends = 1
    /\ (endedAt = "inst_recv" /\ exitSends >= 1) => outcome = "Elapsed"

\* C3 witness: the overall timeout fired, the Exit send failed, and install
\* returned the timeout error.
C3_Witness ==
    endedAt = "inst_recv" /\ outcome = "Elapsed" /\ exitSends = 1 /\ exitFailed

\* C4: when a session with a connected worker was aborted (handshake,
\* heartbeat or overall timeout, unexpected message, install dropped), the
\* worker is sent TerminateProcess only after an Exit send was attempted in
\* that session.
C4_TerminateBeforeKill ==
    (/\ termReq # "none"
     /\ endedAt \in {"await_start", "inst_check", "inst_recv"}
     /\ outcome \in {"Elapsed", "NoHeartbeat", "Unexpected", "Dropped"})
        => exitSends >= 1

\* C5: when the loop has ended with InstallDone, installed is the number of
\* DeviceInstall messages received with an Ok result, and the progress
\* events are Started followed by one Device event per received
\* DeviceInstall, in receive order, with the same device and result.
C5_Tally ==
    (pc = "finish" \/ endedAt = "finish") =>
        /\ installed = OkCount(received)
        /\ events = <<ProgressStarted>> \o Outcomes(received)

\* C5 witness: results Ok then Err were received and install succeeded with
\* installed = 1.
C5_Witness ==
    /\ outcome = "Ok"
    /\ Len(received) = 2
    /\ received[1].ok
    /\ ~received[2].ok
    /\ installed = 1

\* C6: no Exit is sent before InstallDone has ended the loop; a session that
\* got InstallDone returns Ok having handed Exit to send exactly once, also
\* when that send failed; and install returns Ok for a non-empty request
\* only that way.
C6_ExitOnCompletion ==
    /\ (Installing \/ pc = "finish") => exitSends = 0
    /\ endedAt = "finish" => outcome = "Ok" /\ exitSends = 1
    /\ (outcome = "Ok" /\ endedAt # "idle")
          => endedAt = "finish" /\ handled = "InstallDone"

\* C6 witness: install returned Ok although the Exit send failed.
C6_Witness ==
    outcome = "Ok" /\ endedAt = "finish" /\ exitSends = 1 /\ exitFailed

\* C7: while the handshake goes on only Heatbeat and Error have been taken
\* and nothing was emitted; Heatbeat and Error never end it; InstallStarted
\* ends it with Started emitted; DeviceInstall and InstallDone end it with
\* the "Unexpected message" error and nothing emitted; Started is emitted
\* once, before every Device event.
C7_StartHandshake ==
    /\ pc = "await_start" =>
          handled \in {"none", "Heatbeat", "Error"} /\ events = <<>>
    /\ (pc = "done" /\ endedAt = "await_start") =>
          /\ handled \notin {"Heatbeat", "Error", "InstallStarted"}
          /\ events = <<>>
          /\ handled \in {"DeviceInstall", "InstallDone"}
                <=> outcome = "Unexpected"
    /\ outcome = "Unexpected" => endedAt = "await_start"
    /\ handled = "InstallStarted" => pc = "inst_check" /\ events # <<>>
    /\ (Installing \/ pc = "finish") => events # <<>>
    /\ events # <<>> =>
          /\ events[1] = ProgressStarted
          /\ \A i \in 2..Len(events) : events[i].kind = "Device"

\* C7 witness: an InstallDone taken during the handshake ended the session
\* as a protocol violation.
C7_Witness ==
    outcome = "Unexpected" /\ handled = "InstallDone" /\ events = <<>>

\* C8: the handshake never lasts longer than StartTimeout; when it ends
\* without a frame having ended it and without the caller dropping it, it
\* ends with the timeout error, and then nothing was emitted.
C8_StartTimeout ==
    /\ pc = "await_start" => tStart <= StartTimeout
    /\ (pc = "done" /\ endedAt = "await_start" /\ handled = "none"
          /\ outcome # "Dropped") => outcome = "Elapsed"
    /\ (endedAt = "await_start" /\ outcome = "Elapsed") => events = <<>>

\* C8 witness: the handshake timed out.
C8_Witness ==
    pc = "done" /\ endedAt = "await_start" /\ outcome = "Elapsed"

\* C9 as stated: after the Server is dropped its worker does not run.
C9_NoWorkerSurvives == dropped => child # "running"

\* C9 as amended: after the Server is dropped it holds no worker, and a
\* worker that still runs is one for which TerminateProcess was called and
\* failed; a TerminateProcess that succeeded left the worker dead.
C9_DropRequestsKill ==
    /\ dropped => ~held
    /\ (dropped /\ child = "running") => termReq = "failed"
    /\ termReq = "ok" => child \in {"killed", "exited"}

\* C9 witness: install failed on the heartbeat timeout, the Server was
\* dropped and the running worker was killed.
C9_Witness ==
    dropped /\ outcome = "NoHeartbeat" /\ child = "killed" /\ termReq = "ok"

\* C10: once install has ended, log_end_tx is gone; the log task ends on
\* cancellation only after that; and no round of the log task that runs
\* after install has ended reads the log.
C10_RelayCancelled ==
    /\ pc = "done" => logTx # "held"
    /\ relay = "cancelled" => pc = "done" /\ logTx \in {"sent", "dropped"}
    /\ ~staleRead

\* C10 witness: install ended without sending (), and the log task ended on
\* the closed channel.
C10_Witness ==
    pc = "done" /\ logTx = "dropped" /\ relay = "cancelled"

\* C11: taking a DeviceInstall in the Installing phase, failed or not, never
\* ends install: the loop goes on to its next round; and a session that got
\* InstallDone returns Ok whatever the results were.
C11_DeviceFailuresNonFatal ==
    /\ [][pc = "inst_recv" /\ handled' = "DeviceInstall"
            => pc' = "inst_check" /\ outcome' = "none"]_vars
    /\ [](endedAt = "finish" => outcome = "Ok")

\* C11 witness: the only result received was a failure, and install returned
\* Ok with fewer devices installed than requested.
C11_Witness ==
    /\ outcome = "Ok"
    /\ received # <<>>
    /\ \A i \in DOMAIN received : ~received[i].ok
    /\ installed < nDevices

\* C12: install with an empty device list ends at once with Ok and leaves
\* the worker, the Server's child, the pipe, the log task, the progress
\* events and the sends as they were.
C12_EmptyListNoOp ==
    [][pc = "idle" /\ pc' # "idle" /\ nDevices' = 0
          => /\ pc' = "done"
             /\ outcome' = "Ok"
             /\ UNCHANGED <<child, held, termReq, conn, relay, logTx, events,
                            exitSends, installed, received>>]_vars

\* C12 witness: install returned Ok for an empty list with no worker, no
\* pipe and no event.
C12_Witness ==
    /\ pc = "done"
    /\ endedAt = "idle"
    /\ outcome = "Ok"
    /\ nDevices = 0
    /\ child = "none"
    /\ conn = "none"
    /\ events = <<>>

\* C19: the error install returns for a timeout tells which timeout it was:
\* the handshake timeout's error is returned only from the handshake, the
\* overall timeout's only from the receive of the Installing phase, the
\* heartbeat timeout's only from the heartbeat check.
C19_TimeoutsDistinct ==
    /\ (pc = "done" /\ outcome = TimeoutError("start"))
          => endedAt = "await_start"
    /\ (pc = "done" /\ outcome = TimeoutError("overall"))
          => endedAt = "inst_recv"
    /\ (pc = "done" /\ outcome = TimeoutError("heartbeat"))
          => endedAt = "inst_check"

\* C13: the attempts of a connect are ConnectPollPeriod apart and none is
\* made after the deadline; every attempt but the last answered busy; while
\* the connect goes on the deadline has not passed; it ends with the channel
\* exactly when the last attempt opened the pipe, with the open error
\* exactly when the last attempt failed otherwise, and with the timeout
\* error only at the deadline, every attempt having answered busy.
C13_BusyRetry ==
    /\ \A i \in DOMAIN cOpens :
          /\ cOpens[i].at = i * ConnectPollPeriod
          /\ cOpens[i].at <= cTimeout
          /\ i < Len(cOpens) => cOpens[i].result = "busy"
    /\ cPhase = "sleeping" =>
          /\ cNow <= cTimeout
          /\ \A i \in DOMAIN cOpens : cOpens[i].result = "busy"
    /\ cResult = "Channel" <=>
          (cOpens # <<>> /\ cOpens[Len(cOpens)].result = "ok")
    /\ cResult = "OpenError" <=>
          (cOpens # <<>> /\ cOpens[Len(cOpens)].result = "error")
    /\ cResult = "Elapsed" =>
          /\ cNow = cTimeout
          /\ \A i \in DOMAIN cOpens : cOpens[i].result = "busy"
    /\ cPhase = "done" <=> cResult # "none"

\* C13 witness: three attempts answered busy and the connect timed out.
C13_Witness ==
    /\ cResult = "Elapsed"
    /\ Len(cOpens) = 3
    /\ \A i \in DOMAIN cOpens : cOpens[i].result = "busy"

Kills == {i \in DOMAIN hOps : hOps[i].op = "kill"}

C15_HandleReleasedOnce ==
    /\ hState \in {"none", "owned"} => hCloses = 0
    /\ hState = "dropped" => hCloses = 1
    /\ ~hStale

\* C15 witness: a Child dropped after a kill that failed and a wait.
C15_Witness ==
    /\ hState = "dropped"
    /\ hCloses = 1
    /\ \E i \in Kills : ~hOps[i].ok
    /\ \E i \in DOMAIN hOps : hOps[i].op = "try_wait"

\* C16: the worker reads back exactly the argument that was given; an
\* argument without blank or quote is emitted as it is, and the empty
\* argument as a pair of quotes.
C16_QuoteRoundTrip ==
    /\ qStage \in {"param", "parsed"} =>
          /\ (qArg # <<>> /\ IsPlain(qArg)) => qParam = qArg
          /\ qArg = <<>> => qParam = <<Quote, Quote>>
    /\ qStage = "parsed" => qArgs = <<qArg>>

NamedId == PipeIdOr(nPipeId, DefaultPipeId)

\* C17: a name that get_pipe_name yields is PipePrefix followed by the id,
\* and what follows the leading PipePrefix does not start with PipePrefix
\* again; for an id that starts with PipePrefix it yields no name: the
\* assertion fails.
C17_NamePrefixedOnce ==
    nStage = "named" =>
        /\ nResult \in {"name", "panic"}
        /\ nResult = "name" =>
              /\ nName = PipePrefix \o NamedId
              /\ StartsWith(nName, PipePrefix)
              /\ ~StartsWith(SubSeq(nName, Len(PipePrefix) + 1, Len(nName)),
                             PipePrefix)
        /\ StartsWith(NamedId, PipePrefix) => nResult = "panic"

\* C17 witness: an id made of PipePrefix and more was rejected.
C17_Witness ==
    /\ nStage = "named"
    /\ nResult = "panic"
    /\ StartsWith(NamedId, PipePrefix)
    /\ Len(NamedId) > Len(PipePrefix)

SeErrCodes ==
    {SE_ERR_FNF, SE_ERR_PNF, SE_ERR_ACCESSDENIED, SE_ERR_OOM,
     SE_ERR_DLLNOTFOUND, SE_ERR_SHARE, SE_ERR_ASSOCINCOMPLETE,
     SE_ERR_DDETIMEOUT, SE_ERR_DDEFAIL, SE_ERR_DDEBUSY, SE_ERR_NOASSOC}

\* The failure mode of the taxonomy that an answer of the OS stands for:
\* the SE_ERR_* code it left, or no process produced by a call that left
\* none; 0 for an answer that is none of them.
NoProcess == MaxHInst + 1

FailureMode(a) ==
    IF a.hInstApp \in SeErrCodes THEN a.hInstApp
    ELSE IF a.ret /\ a.hInstApp > SE_ERR_DLLNOTFOUND /\ ~a.hProcess
      THEN NoProcess
    ELSE 0

\* C18: every call of spawn that met a failure mode of the taxonomy
\* returned an error, and two calls that met different failure modes
\* returned different errors.
C18_SpawnErrorsDistinct ==
    \A i \in DOMAIN sCalls, j \in DOMAIN sCalls :
        FailureMode(sCalls[i].os) # 0 =>
            /\ ~sCalls[i].result.ok
            /\ (FailureMode(sCalls[j].os) # 0
                  /\ FailureMode(sCalls[i].os) # FailureMode(sCalls[j].os))
                 => sCalls[i].result # sCalls[j].result

\* C20: a server_create called while the name had an instance failed; the
\* listener of install is never younger than another instance of the name;
\* and at most one of the instances that exist was created as the first.
C20_FirstInstanceOnly ==
    /\ \A i \in DOMAIN pTries : pTries[i].existing > 0 => ~pTries[i].ok
    /\ \A i \in DOMAIN pInstances : pInstances[i].owner = "server" => i = 1
    /\ Cardinality({i \in DOMAIN pInstances : pInstances[i].first}) <= 1

\* C20 witness: another process held the name, install's creation failed,
\* and the name still has that process's instance only.
C20_Witness ==
    /\ \E i \in DOMAIN pTries : pTries[i].existing > 0 /\ ~pTries[i].ok
    /\ pInstances # <<>>
    /\ ~Owns("server")

\* The order in which install goes through its phases.
PhaseSteps ==
    {<<"idle", "accept">>, <<"accept", "logsetup">>, <<"logsetup", "request">>,
     <<"request", "await_start">>, <<"await_start", "inst_check">>,
     <<"inst_check", "inst_recv">>, <<"inst_recv", "inst_check">>,
     <<"inst_recv", "finish">>}
        \cup {<<p, "done">> : p \in {"idle", "accept", "logsetup", "request",
                                     "await_start", "inst_check", "inst_recv",
                                     "finish"}}

\* The orders in which install hands its messages to send.
SendOrders ==
    {<<>>, <<"Logging">>, <<"Logging", "Install">>,
     <<"Logging", "Install", "Exit">>, <<"Install">>, <<"Install", "Exit">>}

\* C24: install changes phase only along idle, accept (listener created and
\* worker spawned), logsetup (connected), request, await_start, installing,
\* finish, or to its end; a worker is spawned only in a step that leaves the
\* listener listening; nothing is handed to send before the connection is
\* accepted; Logging, when sent, is sent first and before Install, and it is
\* sent whenever the log task was started; and install ends in its log
\* setup only when a Logging send was attempted there, never for the lack
\* of a window.
C24_PhaseOrder ==
    /\ [][pc' # pc => <<pc, pc'>> \in PhaseSteps]_vars
    /\ [][child # "running" /\ child' = "running"
            => pc = "idle" /\ pc' = "accept" /\ conn' = "listening"]_vars
    /\ [](pc \in {"idle", "accept"} => sent = <<>>)
    /\ [](sent # <<>> => conn \in {"open", "closed"})
    /\ [](sent \in SendOrders)
    /\ [](relay # "none" => sent # <<>> /\ sent[1] = "Logging")
    /\ [][pc = "logsetup" /\ pc' = "done"
            => sent' = Append(sent, "Logging") /\ outcome' = "SendError"]_vars

\* C24 witness: a session without a window went through every phase and
\* returned Ok, having sent Install and then Exit and no Logging.
C24_Witness ==
    /\ outcome = "Ok"
    /\ endedAt = "finish"
    /\ relay = "none"
    /\ sent = <<"Install", "Exit">>

\* C25: once the worker's end of the pipe is closed in the Installing phase,
\* install never goes on to its completion and never returns Ok; the time
\* since the last heartbeat cannot pass the deadline by more than one
\* PollInterval, and the check made past the deadline returns the
\* "No heatbeat" timeout error.
C25_StreamEndNotSuccess ==
    /\ [][Installing /\ conn = "closed"
            => pc' # "finish" /\ outcome' \in {"none", "NoHeartbeat", "Elapsed",
                                               "Dropped"}]_vars
    /\ [](Installing /\ conn = "closed"
            => sinceHb <= HeartbeatTimeout + PollInterval)
    /\ [][pc = "inst_check" /\ conn = "closed" /\ sinceHb > HeartbeatTimeout
            /\ pc' # pc => outcome' = "NoHeartbeat"]_vars

\* C25 witness: the worker exited after a device result and before
\* InstallDone, and the heartbeat check finds the deadline passed.
C25_Witness ==
    /\ pc = "inst_check"
    /\ conn = "closed"
    /\ child = "exited"
    /\ received # <<>>
    /\ sinceHb > HeartbeatTimeout

\* The install cycle is in progress: serve is inside self.install(..).
InCycle == wPc \in {"beat", "wait", "join"}

Last(seq) == seq[Len(seq)]

\* The messages of seq that came from the installer thread.
FromThread(seq) ==
    SelectSeq(seq, LAMBDA m : m.kind \in {"DeviceInstall", "Error"})

IsPrefix(a, b) == Len(a) <= Len(b) /\ SubSeq(b, 1, Len(a)) = a

\* C21: what the worker sends for an Install starts with InstallStarted,
\* goes on with Heatbeat, DeviceInstall and Error only, and has InstallDone
\* nowhere but at its end; what it forwards from the thread is, in order,
\* what the thread produced; InstallDone is sent only with the thread
\* finished, its queue empty and all it produced forwarded; and serve is
\* back at its receive only with InstallDone sent.
C21_CycleSequence ==
    /\ wCycle # <<>> => wCycle[1].kind = "InstallStarted"
    /\ \A i \in 2..Len(wCycle) :
          /\ wCycle[i].kind \in {"Heatbeat", "DeviceInstall", "Error",
                                 "InstallDone"}
          /\ wCycle[i].kind = "InstallDone" => i = Len(wCycle)
    /\ IsPrefix(FromThread(wCycle), wProduced)
    /\ InCycle => wCycle # <<>> /\ Last(wCycle).kind # "InstallDone"
    /\ (wCycle # <<>> /\ Last(wCycle).kind = "InstallDone") =>
          /\ bState = "finished"
          /\ wQueue = <<>>
          /\ FromThread(wCycle) = wProduced
    /\ (wPc = "recv" /\ wCycle # <<>>) => Last(wCycle).kind = "InstallDone"

\* C21 witness: a cycle ended with InstallDone after two device results and
\* a wait that ended by its timeout.
C21_Witness ==
    /\ wCycle # <<>>
    /\ Last(wCycle).kind = "InstallDone"
    /\ Len(wProduced) = 2
    /\ wIdle = 1

\* C22: a wait of the install loop never lasts longer than HeartbeatPeriod,
\* whatever the thread does; a wait is left only for the next Heatbeat send,
\* for the forwarding of a queued message followed by it, or because the
\* queue is closed; and the loop leaves the top of its round only by sending
\* Heatbeat and starting a new wait, or by ending.
C22_HeartbeatCadence ==
    /\ [](wWait <= HeartbeatPeriod)
    /\ [][wPc = "wait" /\ wPc' # "wait"
            => wPc' \in {"beat", "join", "ended"}]_vars
    /\ [][wPc = "beat" /\ wPc' # "beat" =>
            \/ wPc' = "ended"
            \/ /\ wPc' = "wait"
               /\ wWait' = 0
               /\ wCycle' = Append(wCycle, Msg("Heatbeat"))]_vars
    /\ [][wWait' > wWait => wPc = "wait" /\ wQueue = <<>>]_vars

\* C22 witness: the thread is still in a native call, one wait has ended by
\* its timeout, the next Heatbeat was sent and a full period has passed
\* again.
C22_Witness ==
    /\ wPc = "wait"
    /\ wWait = HeartbeatPeriod
    /\ wIdle = 1
    /\ bState = "installing"

\* C27: serve takes a message from the pipe only at the top of its loop,
\* never inside an install cycle; and it returns Ok only from there, with
\* no thread running and with InstallDone sent for the latest Install.
C27_NoReadDuringCycle ==
    /\ [][Len(wInbox') < Len(wInbox) => wPc = "recv"]_vars
    /\ [][InCycle => wLast' = wLast]_vars
    /\ [][wResult = "none" /\ wResult' = "Ok" =>
            /\ wPc = "recv"
            /\ bState \notin {"discover", "installing"}
            /\ wCycle # <<>> => Last(wCycle).kind = "InstallDone"]_vars

\* C27 witness: Exit lies unread on the pipe while the loop, one timeout
\* later, still waits for the thread.
C27_Witness ==
    /\ wPc = "wait"
    /\ wInbox = <<"Exit">>
    /\ wIdle = 1
    /\ bState = "installing"

\* C28: serve returns Ok only with Exit as the last message it received; a
\* receive that yields None leaves it at its receive, not ended, and from
\* then on it leaves its receive only by an error or by the process being
\* terminated; and serve ends only by Exit, by an error (connect, receive
\* or decode, log setup, send, join), by the panic of a failed Heatbeat
\* send, or by the process being terminated.
C28_ServeEndsByExit ==
    /\ [](wResult = "Ok" => wLast = "Exit")
    /\ [][wLast # "None" /\ wLast' = "None"
            => wPc = "recv" /\ wPc' = "recv" /\ wResult' = "none"]_vars
    /\ [][wLast = "None" /\ wPc' # wPc
            => wPc' = "ended" /\ wResult' \in {"Err", "Killed"}]_vars
    /\ [][wPc # "ended" /\ wPc' = "ended" =>
            \/ wResult' = "Ok" /\ wLast' = "Exit"
            \/ wResult' = "Killed"
            \/ wResult' = "Panic" /\ wPc = "beat" /\ wPeer = "closed"
            \/ /\ wResult' = "Err"
               /\ \/ wPc = "off"
                  \/ /\ wPc = "recv"
                     /\ wLast' \in {"Error", "Malformed", "Logging"}
                  \/ wPeer = "closed"
                  \/ wPc = "join" /\ bState = "panicked"]_vars

\* C28 witness: the orchestrator closed the pipe without Exit, the receive
\* yielded None and serve is still at its receive.
C28_Witness ==
    /\ wPc = "recv"
    /\ wLast = "None"
    /\ wPeer = "closed"
    /\ wResult = "none"
    /\ wCmds = 0

\* C23: When the device enumeration fails, the thread's one message is the
\* Error; serve forwards it, still sends InstallDone for the request and is
\* back at its receive, ending only by Exit; install then returns Ok with
\* no device installed and only Started reported.
DiscoveryFailed == wProduced = <<Msg("Error")>>

C23_DiscoveryError ==
    /\ [](DiscoveryFailed /\ bState = "finished" /\ wPc \in {"recv", "ended"}
            => /\ FromThread(wCycle) = <<Msg("Error")>>
               /\ wCycle[1] = Msg("InstallStarted")
               /\ wCycle[Len(wCycle)] = Msg("InstallDone"))
    /\ [](DiscoveryFailed /\ wPc = "ended"
            => wResult = "Ok" /\ wLast = "Exit")
    /\ [](DiscoveryFailed /\ pc = "done"
            => outcome = "Ok" /\ installed = 0 /\ events = <<ProgressStarted>>)
    /\ (DiscoveryFailed ~> (pc = "done" /\ outcome = "Ok"))

C23_Witness ==
    /\ DiscoveryFailed
    /\ pc = "done"
    /\ outcome = "Ok"
    /\ installed = 0
    /\ wResult = "Ok"
    /\ Msg("Heatbeat") \in {wCycle[i] : i \in DOMAIN wCycle}

\* client_setup failed when serve handled Logging, and serve ended by it.
SetupFailed == wResult = "Err" /\ wLast = "Logging"

\* The DeviceInstall messages among seq.
DeviceResults(seq) == SelectSeq(seq, LAMBDA m : m.kind = "DeviceInstall")

\* C26, as stated: with the worker running serve, the pipe in order and
\* within its delay, and the thread finishing, install never ends by an
\* unexpected message or a missing heartbeat, and once the worker is
\* spawned install eventually returns Ok.
C26_AlwaysSucceeds ==
    /\ [](outcome \notin {"Unexpected", "NoHeartbeat"})
    /\ (pc = "accept" ~> (pc = "done" /\ outcome = "Ok"))

\* C26, amended: under the same conditions install never ends by an
\* unexpected message or a missing heartbeat, and once the worker is
\* spawned either install returns Ok, after InstallDone and with every
\* result of the thread received in order, or client_setup failed in the
\* worker: then serve has ended with that error before InstallStarted, and
\* install ends with a send error or the start timeout, never with Ok.
C26_EndToEnd ==
    /\ [](outcome \notin {"Unexpected", "NoHeartbeat"})
    /\ [](pc = "done" /\ endedAt # "idle" /\ outcome # "Ok"
            => SetupFailed /\ outcome \in {"SendError", "Elapsed"})
    /\ [](SetupFailed => outcome # "Ok" /\ relay # "none" /\ wCycle = <<>>)
    /\ [](outcome = "Ok" /\ endedAt # "idle"
            => /\ wCycle # <<>>
               /\ wCycle[Len(wCycle)] = Msg("InstallDone")
               /\ wOut = <<>>
               /\ received = DeviceResults(wProduced))
    /\ (pc = "accept" ~> ((pc = "done" /\ outcome = "Ok") \/ SetupFailed))

C26_Witness ==
    /\ pc = "done"
    /\ outcome = "Ok"
    /\ Len(received) = MaxResults
    /\ wIdle = MaxIdle
    /\ relay # "none"
    /\ wResult = "Ok"

\* The workers this Server spawned that are running.
Running == orphans + (IF child = "running" THEN 1 ELSE 0)

\* C29: over the install calls on one Server, whatever their outcome, the
\* Server holds at most one worker's handle, that of the worker it spawned
\* last, and a worker is spawned only when the one before it has been found
\* exited or has been terminated: no two of its workers run at a time.
C29_OneWorkerAtATime ==
    /\ held => child # "none"
    /\ Running <= 1

====
